---- MODULE Spec2Model ----
(***************************************************************************)
(* The slotted record store of iris-tools: the fixed-slot FileHandler, the *)
(* identity manager (package collection_manager_memory) and the            *)
(* relationship manager (package collection_manager_join).                 *)
(*                                                                         *)
(* Items are Go pointers (the tests instantiate New[*Model] and            *)
(* New[*PhotoAlbums]).  The identity manager calls the item's setters, so  *)
(* its cache holds references into a heap of objects and a setter acts on  *)
(* the object the caller and the cache share.  Nothing writes through a    *)
(* *PhotoAlbums (it has no setter and is not Timestampable), so the        *)
(* relationship manager's caches are modelled as holding the item values.  *)
(* The file is a flat sequence of bytes; byte 0 is the zero padding byte.  *)
(***************************************************************************)
EXTENDS Integers, Sequences, FiniteSets, TLC

(* ------------------------------ bounds -------------------------------- *)
\* GetRecordSize() of the identity item type, scaled down from 250.
IdRecordSize == 6
\* GetRecordSize() of the relationship item type, scaled down from 100.
JoinRecordSize == 4
\* recordSize handed to NewFileHandler when the FileHandler is used alone.
FhRecordSize == 4
\* Slots a file may grow to.
MaxSlots == 2
\* Identifiers uuid.NewV7 can mint.
MaxId == 2
\* Longest Name field of an item.
MaxName == 2
\* Parent identifiers (AlbumID) and child identifiers (PhotoID) in use.
MaxParent == 2
MaxChild == 2
\* Threads calling one manager, and the calls they make between them.
MaxThreads == 2
MaxCalls == 3
\* The calls made where each lock step is followed.
MaxLockCalls == 2
\* Whole slots of a file a manager is opened on.
MaxLoadSlots == 3
MaxPath == 3
MaxSegment == 2
MaxRoutes == 3
MaxChain == 3
LongChain == 102

(* ------------------------- program constants -------------------------- *)
recordStatusSize == 1
StatusActive == 0
StatusDeleted == 1

VARIABLES
    kind,        \* which component the behaviour runs: "identity", "join", "file"
    recordSize,  \* FileHandler.recordSize
    file,        \* contents of FileHandler.dataFile, a sequence of bytes
    fhOpen,      \* whether FileHandler.dataFile is open
    heap,        \* the *Model objects the identity cache refers to: ref -> item
    dataCache,   \* Manager.dataCache: id -> ref (identity), key -> item (join)
    parentCache, \* Manager.parentCache: parent -> sequence of items (join)
    closed,      \* Manager.closed
    nextId,      \* the identifiers uuid.NewV7 has handed out so far, plus one
    snap,        \* the caches as they were when Close discarded them
    last,        \* the last call that was not a read: operation, key, result
    pcs,         \* per thread: the call it is in and how far it has got
    mu,          \* Manager.mu: the threads holding it for writing, for reading
    pend,        \* per thread: what its call has still to store and return
    calls,       \* the calls begun so far
    fhmu,        \* FileHandler.mu: the threads holding it for writing, reading
    backing,     \* the arrays behind the parent index's lists, and the list
                 \* a caller of GetByParentID holds
    router,      \* Engine.router[method] of one method: the root node, or none
    routes,      \* the routes addRoute was called with: path -> handlers
    ctx          \* the Context of one request: handlers, index, calls of Next

\* The variables only concurrent callers change.
threads == <<pcs, mu, pend, calls, fhmu>>

\* The variables a sequential call of the identity manager or of the
\* FileHandler leaves alone.
conc == <<threads, backing>>

\* The variables of the web framework, which no manager touches.
web == <<router, routes, ctx>>

\* The variables of the managers and the FileHandler, which the web
\* framework does not touch.
store == <<kind, recordSize, file, fhOpen, heap, dataCache, parentCache,
           closed, nextId, snap, last, pcs, mu, pend, calls, fhmu, backing>>

vars == <<kind, recordSize, file, fhOpen, heap, dataCache, parentCache,
          closed, nextId, snap, last, pcs, mu, pend, calls, fhmu, backing,
          router, routes, ctx>>

(* ------------------------------ helpers ------------------------------- *)
Max(a, b) == IF a >= b THEN a ELSE b
Min(a, b) == IF a <= b THEN a ELSE b

Range(s) == {s[i] : i \in 1..Len(s)}

\* An index search that finds the last zero byte instead of the first.
IndexByte0Last(s) ==
    IF \E i \in 1..Len(s) : s[i] = 0
    THEN (CHOOSE i \in 1..Len(s) : s[i] = 0 /\ \A j \in (i+1)..Len(s) : s[j] # 0) - 1
    ELSE -1

\* bytes.IndexByte(s, 0): the 0-based index of the first zero byte, or -1.
\* An index search that takes a full buffer for one byte short of full.
IndexByte0Short(s) ==
    IF \E i \in 1..Len(s) : s[i] = 0
    THEN (CHOOSE i \in 1..Len(s) : s[i] = 0 /\ \A j \in 1..(i-1) : s[j] # 0) - 1
    ELSE Len(s) - 1

IndexByte0(s) ==
    IF \E i \in 1..Len(s) : s[i] = 0
    THEN (CHOOSE i \in 1..Len(s) : s[i] = 0 /\ \A j \in 1..(i-1) : s[j] # 0) - 1
    ELSE -1

\* All sequences over S of length lo..hi.
SeqsOf(S, lo, hi) == UNION {[1..n -> S] : n \in lo..hi}

(* ---------------------------- FileHandler ----------------------------- *)
\* A record buffer cut to the status byte and the data, without padding.
RecordBufferShort(rs, data) ==
    [i \in 1..(recordStatusSize + Len(data)) |->
        IF i <= recordStatusSize THEN StatusActive
        ELSE data[i - recordStatusSize]]

\* recordBuffer := make([]byte, recordSize); recordBuffer[0] = StatusActive;
\* copy(recordBuffer[recordStatusSize:], data)
RecordBuffer(rs, data) ==
    [i \in 1..rs |->
        IF i <= recordStatusSize THEN StatusActive
        ELSE IF i - recordStatusSize <= Len(data) THEN data[i - recordStatusSize]
        ELSE 0]

\* os.File.WriteAt(buf, off) for off >= 0: a write past end-of-file leaves a
\* hole of zero bytes.
WriteAt(f, buf, off) ==
    [i \in 1..Max(Len(f), off + Len(buf)) |->
        IF i > off /\ i <= off + Len(buf) THEN buf[i - off]
        ELSE IF i <= Len(f) THEN f[i]
        ELSE 0]

\* os.File.ReadAt(buf, off) into a zeroed buffer of n bytes: the buffer and
\* the number of bytes read.
ReadAt(f, n, off) ==
    [n   |-> Max(0, Min(n, Len(f) - off)),
     buf |-> [i \in 1..n |-> IF off + i <= Len(f) THEN f[off + i] ELSE 0]]

\* A WriteRecord that reuses the first tombstoned slot when there is one.
WriteRecordReuse(f, rs, data, ioOk) ==
    LET dead == {o \in 0..(Len(f) - 1) : o % rs = 0 /\ f[o + 1] = StatusDeleted}
        o == CHOOSE x \in dead : \A y \in dead : x <= y
    IN  IF Len(data) > rs - recordStatusSize
        THEN [err |-> "capacity", offset |-> -1, file |-> f]
        ELSE IF ~ioOk
        THEN [err |-> "io", offset |-> -1, file |-> f]
        ELSE IF dead # {}
        THEN [err |-> "nil", offset |-> o,
              file |-> WriteAt(f, RecordBuffer(rs, data), o)]
        ELSE [err |-> "nil", offset |-> Len(f),
              file |-> f \o RecordBuffer(rs, data)]

\* FileHandler.WriteRecord(data). ioOk: the handle is open and the write
\* system call succeeds; a failed call writes nothing.
WriteRecord(f, rs, data, ioOk) ==
    IF Len(data) > rs - recordStatusSize
    THEN [err |-> "capacity", offset |-> -1, file |-> f]
    ELSE IF ~ioOk
    THEN [err |-> "io", offset |-> -1, file |-> f]
    ELSE [err |-> "nil", offset |-> Len(f), file |-> f \o RecordBuffer(rs, data)]

\* A ReadRecord that does not look at the status byte.
ReadRecordAnyStatus(f, rs, offset) ==
    IF offset < 0
    THEN [err |-> "invalid offset", data |-> <<>>]
    ELSE LET r == ReadAt(f, rs, offset)
             dataLength == IndexByte0(SubSeq(r.buf, recordStatusSize + 1, rs))
         IN  IF r.n = 0
             THEN [err |-> "no data", data |-> <<>>]
             ELSE IF dataLength = -1
             THEN [err |-> "nil",
                   data |-> SubSeq(r.buf, recordStatusSize + 1, rs)]
             ELSE IF dataLength = 0
             THEN [err |-> "empty", data |-> <<>>]
             ELSE [err |-> "nil",
                   data |-> SubSeq(r.buf, recordStatusSize + 1,
                                   recordStatusSize + dataLength)]

\* FileHandler.ReadRecord(offset).
ReadRecord(f, rs, offset) ==
    IF offset < 0
    THEN [err |-> "invalid offset", data |-> <<>>]
    ELSE LET r == ReadAt(f, rs, offset)
             dataLength == IndexByte0(SubSeq(r.buf, recordStatusSize + 1, rs))
         IN  IF r.n = 0
             THEN [err |-> "no data", data |-> <<>>]
             ELSE IF r.buf[1] = StatusDeleted
             THEN [err |-> "deleted", data |-> <<>>]
             ELSE IF dataLength = -1
             THEN [err |-> "nil",
                   data |-> SubSeq(r.buf, recordStatusSize + 1, rs)]
             ELSE IF dataLength = 0
             THEN [err |-> "empty", data |-> <<>>]
             ELSE [err |-> "nil",
                   data |-> SubSeq(r.buf, recordStatusSize + 1,
                                   recordStatusSize + dataLength)]

\* An UpdateRecord that writes the status byte and the data only, leaving
\* the rest of the slot as it was.
UpdateRecordNoPad(f, rs, offset, data, ioOk) ==
    IF Len(data) > rs - recordStatusSize
    THEN [err |-> "capacity", file |-> f]
    ELSE IF ~ioOk \/ offset < 0
    THEN [err |-> "io", file |-> f]
    ELSE [err |-> "nil", file |-> WriteAt(f, RecordBufferShort(rs, data), offset)]

\* FileHandler.UpdateRecord(offset, data).
UpdateRecord(f, rs, offset, data, ioOk) ==
    IF Len(data) > rs - recordStatusSize
    THEN [err |-> "capacity", file |-> f]
    ELSE IF ~ioOk \/ offset < 0
    THEN [err |-> "io", file |-> f]
    ELSE [err |-> "nil", file |-> WriteAt(f, RecordBuffer(rs, data), offset)]

\* FileHandler.DeleteRecord(offset).
\* A DeleteRecord that also clears the first payload byte of the slot.
DeleteRecordWipe(f, offset, ioOk) ==
    IF ~ioOk \/ offset < 0
    THEN [err |-> "io", file |-> f]
    ELSE [err |-> "nil", file |-> WriteAt(f, <<StatusDeleted, 0>>, offset)]

DeleteRecord(f, offset, ioOk) ==
    IF ~ioOk \/ offset < 0
    THEN [err |-> "io", file |-> f]
    ELSE [err |-> "nil", file |-> WriteAt(f, <<StatusDeleted>>, offset)]

(* ------------------------------- items -------------------------------- *)
\* The bytes a Name is made of.
NameChars == {1}
Names == SeqsOf(NameChars, 0, MaxName)
\* time.Time values: 0 is the zero time.Time, Now what time.Now() returns (all
\* clock readings are taken as one value).
Now == 1

\* An identity item, after the tests' Model: ID, Name, CreatedAt, UpdatedAt.
\* A caller's new item carries any identifier and Name and unset timestamps.
IdValues == [ID : 0..MaxId, Name : Names, CreatedAt : {0}, UpdatedAt : {0}]

\* time.Time in JSON: the zero time is shorter than a clock reading.
TimeBytes(t) == IF t = 0 THEN <<1>> ELSE <<2, t>>

\* json.Marshal of an identity item: no byte of it is zero, the identifier
\* has a fixed width, the Name and the timestamps decide the length.
MarshalId(v) ==
    <<v.ID + 1>> \o TimeBytes(v.CreatedAt) \o TimeBytes(v.UpdatedAt) \o v.Name

\* The timestamp starting at position i of data: [ok, t, next].
ParseTime(data, i) ==
    IF i > Len(data) THEN [ok |-> FALSE, t |-> 0, next |-> i]
    ELSE IF data[i] = 1 THEN [ok |-> TRUE, t |-> 0, next |-> i + 1]
    ELSE IF data[i] = 2 /\ i + 1 <= Len(data) /\ data[i + 1] >= 1
    THEN [ok |-> TRUE, t |-> data[i + 1], next |-> i + 2]
    ELSE [ok |-> FALSE, t |-> 0, next |-> i]

NoIdItem == [ID |-> 0, Name |-> <<>>, CreatedAt |-> 0, UpdatedAt |-> 0]

\* json.Unmarshal(data, &loadedItem) for an identity item.
UnmarshalId(data) ==
    IF Len(data) < 1 \/ data[1] < 1
    THEN [err |-> "syntax", item |-> NoIdItem]
    ELSE LET c == ParseTime(data, 2)
             u == ParseTime(data, c.next)
             name == SubSeq(data, u.next, Len(data))
         IN  IF ~c.ok \/ ~u.ok \/ ~(Range(name) \subseteq NameChars)
             THEN [err |-> "syntax", item |-> NoIdItem]
             ELSE [err |-> "nil",
                   item |-> [ID |-> data[1] - 1, Name |-> name,
                             CreatedAt |-> c.t, UpdatedAt |-> u.t]]

(* -------------------------------- heap -------------------------------- *)
\* The first unused reference: what new(T) returns.
NewRef(h) == CHOOSE r \in 1..(Cardinality(DOMAIN h) + 1) : r \notin DOMAIN h

\* m[k] = v of a Go map.
Put(m, k, v) == [x \in DOMAIN m \cup {k} |-> IF x = k THEN v ELSE m[x]]

\* A delete that leaves the map as it was.
RemoveNothing(m, k) == m

\* delete(m, k) of a Go map.
Remove(m, k) == [x \in DOMAIN m \ {k} |-> m[x]]

\* An empty map; also the nil map Close leaves, which reads as empty.
EmptyMap == [x \in {} |-> 0]

\* The objects the identity cache still refers to; any other object is the
\* caller's alone and behaves as a new one.
Collect(h, dc) == [r \in DOMAIN h \cap {dc[k] : k \in DOMAIN dc} |-> h[r]]

\* The item a caller hands to the identity manager: an object the cache holds
\* (obtained from Read or ReadAll, or kept from an earlier call) or a new one.
CallArgs(h, values) ==
    {[ref |-> r, heap |-> h] : r \in DOMAIN h}
    \cup {[ref |-> NewRef(h), heap |-> Put(h, NewRef(h), v)] : v \in values}

(* ------------------------- the last call made ------------------------- *)
NoKey == IF kind = "join" THEN <<0, 0>> ELSE 0

\* op: the operation; key: the identifier or composite key it was given or
\* minted, for the FileHandler the offset it was given; err: "nil" or the
\* error; off: the file offset it wrote at (-1: none).
NoCall == [op |-> "none", key |-> NoKey, err |-> "nil", off |-> -1]

\* snap is kept from Close until the reopened manager is first changed.
NoSnap == [data |-> EmptyMap, parent |-> EmptyMap]

(* -------------------------- identity manager -------------------------- *)
\* Manager.findRecordOffset(id) of the identity manager, from offset on.
RECURSIVE IdScanFrom(_, _, _, _)
IdScanFrom(f, rs, id, offset) ==
    IF offset >= Len(f) THEN [err |-> "not in file", offset |-> -1]
    ELSE LET r == ReadRecord(f, rs, offset)
             u == UnmarshalId(r.data)
         IN  IF r.err # "nil" \/ u.err # "nil"
             THEN IdScanFrom(f, rs, id, offset + rs)
             ELSE IF u.item.ID = id THEN [err |-> "nil", offset |-> offset]
             ELSE IdScanFrom(f, rs, id, offset + rs)

\* A relocation scan that starts at the second slot.
IdFindFromSecond(f, rs, id) == IdScanFrom(f, rs, id, rs)

IdFindRecordOffset(f, rs, id) == IdScanFrom(f, rs, id, 0)

\* A load scan that stops at the first slot it cannot read or decode.
RECURSIVE IdLoadAbort(_, _, _, _, _)
IdLoadAbort(f, rs, offset, h, dc) ==
    IF offset >= Len(f) THEN [heap |-> h, dataCache |-> dc]
    ELSE LET r == ReadRecord(f, rs, offset)
             u == UnmarshalId(r.data)
         IN  IF r.err # "nil" \/ u.err # "nil"
             THEN [heap |-> h, dataCache |-> dc]
             ELSE IdLoadAbort(f, rs, offset + rs,
                              Put(h, NewRef(h), u.item),
                              Put(dc, u.item.ID, NewRef(h)))

\* Manager.loadAllDataToCache of the identity manager, from offset on.
RECURSIVE IdLoadFrom(_, _, _, _, _)
IdLoadFrom(f, rs, offset, h, dc) ==
    IF offset >= Len(f) THEN [heap |-> h, dataCache |-> dc]
    ELSE LET r == ReadRecord(f, rs, offset)
             u == UnmarshalId(r.data)
         IN  IF r.err # "nil" \/ u.err # "nil"
             THEN IdLoadFrom(f, rs, offset + rs, h, dc)
             ELSE IdLoadFrom(f, rs, offset + rs,
                             Put(h, NewRef(h), u.item),
                             Put(dc, u.item.ID, NewRef(h)))

IdLoadAllDataToCache(f, rs) == IdLoadFrom(f, rs, 0, EmptyMap, EmptyMap)

\* What Read returns for each key: the cached items by value.
IdCacheValues(h, dc) == [k \in DOMAIN dc |-> h[dc[k]]]

\* New[T](dirName) of the identity manager on the file a closed manager left.
IdNew ==
    /\ kind = "identity"
    /\ closed
    /\ LET l == IdLoadAllDataToCache(file, recordSize)
       IN  /\ heap' = Collect(l.heap, l.dataCache)
           /\ dataCache' = l.dataCache
    /\ closed' = FALSE
    /\ fhOpen' = TRUE
    /\ last' = [NoCall EXCEPT !.op = "New"]
    /\ UNCHANGED <<web, conc, kind, recordSize, file, parentCache, nextId, snap>>

\* A cache write that stores nothing.
IdCachePutNothing(dc, id, ref) == dc

\* m.dataCache[id] = item at the end of Create and Update.

IdCachePut(dc, id, ref) == Put(dc, id, ref)

\* What a mutating call of a manager does, in the order it does it: the
\* error it returns, the key it worked on, the offset it wrote at, the file
\* and the heap after its file operation, and the caches and the identifier
\* counter it leaves.
Outcome(err, key, off, f, h, dc, pc, nid) ==
    [err |-> err, key |-> key, off |-> off, file |-> f, heap |-> h,
     dataCache |-> dc, parentCache |-> pc, nextId |-> nid]

\* A generator that hands out the same identifier again.
NewV7Same(n) == n

\* uuid.NewV7(): the counter after an identifier was minted; the identifier
\* minted is the counter before, so no identifier is handed out twice.
NewV7(n) == n + 1

\* Manager.Create(item) of the identity manager, item being a.ref.
IdCreateOut(a, ioOk) ==
    LET id   == nextId
        h1   == [a.heap EXCEPT ![a.ref].ID = id, ![a.ref].CreatedAt = Now]
        data == MarshalId(h1[a.ref])
        w    == WriteRecord(file, recordSize, data, ioOk /\ fhOpen)
    IN  IF closed
        THEN Outcome("closed", NoKey, -1, file, a.heap, dataCache,
                     parentCache, nextId)
        ELSE IF w.err # "nil"
        THEN Outcome(w.err, id, -1, file, h1, dataCache, parentCache,
                     NewV7(nextId))
        ELSE Outcome("nil", id, w.offset, w.file, h1,
                     IdCachePut(dataCache, id, a.ref), parentCache,
                     NewV7(nextId))

\* The whole of a mutating call of the identity manager.
IdApply(op, out) ==
    /\ file' = out.file
    /\ dataCache' = out.dataCache
    /\ heap' = Collect(out.heap, out.dataCache)
    /\ nextId' = out.nextId
    /\ last' = [op |-> op, key |-> out.key, err |-> out.err, off |-> out.off]
    /\ snap' = NoSnap
    /\ UNCHANGED <<web, conc, kind, recordSize, fhOpen, parentCache, closed>>

IdCreate ==
    /\ kind = "identity"
    /\ nextId <= MaxId
    /\ \E a \in CallArgs(heap, IdValues), ioOk \in BOOLEAN :
         IdApply("Create", IdCreateOut(a, ioOk))

\* Manager.Read(id) of the identity manager: the item returned, by value.
IdReadResult(id) ==
    IF id \in DOMAIN dataCache
    THEN [err |-> "nil", item |-> heap[dataCache[id]]]
    ELSE [err |-> "not found", item |-> NoIdItem]

IdRead ==
    /\ kind = "identity"
    /\ \E id \in 0..MaxId : IdReadResult(id).err \in {"nil", "not found"}
    /\ UNCHANGED vars

\* Manager.Update(item) of the identity manager, item being a.ref.
IdUpdateOut(a, ioOk) ==
    LET h1   == [a.heap EXCEPT ![a.ref].UpdatedAt = Now]
        id   == h1[a.ref].ID
        loc  == IdFindRecordOffset(file, recordSize, id)
        data == MarshalId(h1[a.ref])
        u    == UpdateRecord(file, recordSize, loc.offset, data,
                             ioOk /\ fhOpen)
    IN  IF id \notin DOMAIN dataCache
        THEN Outcome("not exist", id, -1, file, h1, dataCache, parentCache,
                     nextId)
        ELSE IF loc.err # "nil"
        THEN Outcome(loc.err, id, -1, file, h1, dataCache, parentCache,
                     nextId)
        ELSE IF u.err # "nil"
        THEN Outcome(u.err, id, loc.offset, file, h1, dataCache, parentCache,
                     nextId)
        ELSE Outcome("nil", id, loc.offset, u.file, h1,
                     IdCachePut(dataCache, id, a.ref), parentCache, nextId)

IdUpdate ==
    /\ kind = "identity"
    /\ \E a \in CallArgs(heap, IdValues), ioOk \in BOOLEAN :
         IdApply("Update", IdUpdateOut(a, ioOk))

\* Manager.Delete(id) of the identity manager.
IdDeleteOut(id, ioOk) ==
    LET loc == IdFindRecordOffset(file, recordSize, id)
        d   == DeleteRecord(file, loc.offset, ioOk /\ fhOpen)
    IN  IF id \notin DOMAIN dataCache
        THEN Outcome("not found", id, -1, file, heap, dataCache, parentCache,
                     nextId)
        ELSE IF loc.err # "nil"
        THEN Outcome(loc.err, id, -1, file, heap, dataCache, parentCache,
                     nextId)
        ELSE IF d.err # "nil"
        THEN Outcome(d.err, id, loc.offset, file, heap, dataCache,
                     parentCache, nextId)
        ELSE Outcome("nil", id, loc.offset, d.file, heap,
                     Remove(dataCache, id), parentCache, nextId)

IdDelete ==
    /\ kind = "identity"
    /\ \E id \in 0..MaxId, ioOk \in BOOLEAN :
         IdApply("Delete", IdDeleteOut(id, ioOk))

\* The orders in which range m.dataCache can visit the keys: each once.
ReadAllOrders ==
    {order \in [1..Cardinality(DOMAIN dataCache) -> DOMAIN dataCache] :
        \A k \in DOMAIN dataCache : \E i \in DOMAIN order : order[i] = k}

\* A ReadAll that leaves out the entry visited last.
ReadAllButLast(order) ==
    [i \in 1..(Len(order) - 1) |-> dataCache[order[i]]]

\* Manager.ReadAll(), the same in both managers: items = append(items, item)
\* for every entry of m.dataCache, in the order the range visits them.
ReadAllResult(order) == [i \in 1..Len(order) |-> dataCache[order[i]]]

\* Manager.Count(): len(m.dataCache), the same in both managers.
CountResult == Cardinality(DOMAIN dataCache)

IdCount ==
    /\ kind = "identity"
    /\ CountResult >= 0
    /\ UNCHANGED vars

\* A Close that keeps the cache.
KeptCache(dc) == dc

\* Close: m.dataCache = nil; a nil map reads as an empty one.
NilCache(dc) == EmptyMap

\* Manager.Close() of the identity manager.
IdClose ==
    /\ kind = "identity"
    /\ IF closed
       THEN UNCHANGED <<fhOpen, heap, dataCache, closed, snap>>
       ELSE /\ closed' = TRUE
            /\ dataCache' = NilCache(dataCache)
            /\ heap' = Collect(heap, NilCache(dataCache))
            /\ fhOpen' = FALSE
            /\ snap' = [data |-> IdCacheValues(heap, dataCache),
                        parent |-> EmptyMap]
    /\ last' = [NoCall EXCEPT !.op = "Close"]
    /\ UNCHANGED <<web, conc, kind, recordSize, file, parentCache, nextId>>

(* ------------------------ relationship manager ------------------------ *)
\* A relationship item, after the tests' PhotoAlbums, with a Name to give
\* the payload a length; it is not Timestampable.
JoinValues == [AlbumID : 1..MaxParent, PhotoID : 1..MaxChild, Name : Names]

NoJoinItem == [AlbumID |-> 0, PhotoID |-> 0, Name |-> <<>>]

\* GetCompositeKey(): "<AlbumID>:<PhotoID>".
GetCompositeKey(v) == <<v.AlbumID, v.PhotoID>>

JoinKeys == (1..MaxParent) \X (1..MaxChild)

\* strings.Split(key, ":")[0]
ParentOf(key) == key[1]

\* json.Marshal of a relationship item.
MarshalJoin(v) == <<v.AlbumID, v.PhotoID>> \o v.Name

\* json.Unmarshal(data, &loadedItem) for a relationship item.
UnmarshalJoin(data) ==
    IF Len(data) < 2 \/ data[1] < 1 \/ data[2] < 1
       \/ ~(Range(SubSeq(data, 3, Len(data))) \subseteq NameChars)
    THEN [err |-> "syntax", item |-> NoJoinItem]
    ELSE [err |-> "nil",
          item |-> [AlbumID |-> data[1], PhotoID |-> data[2],
                    Name |-> SubSeq(data, 3, Len(data))]]

\* Manager.findRecordOffset(key) of the relationship manager, from offset on.
RECURSIVE JoinScanFrom(_, _, _, _)
JoinScanFrom(f, rs, key, offset) ==
    IF offset >= Len(f) THEN [err |-> "not in file", offset |-> -1]
    ELSE LET r == ReadRecord(f, rs, offset)
             u == UnmarshalJoin(r.data)
         IN  IF r.err # "nil" \/ u.err # "nil"
             THEN JoinScanFrom(f, rs, key, offset + rs)
             ELSE IF GetCompositeKey(u.item) = key
             THEN [err |-> "nil", offset |-> offset]
             ELSE JoinScanFrom(f, rs, key, offset + rs)

JoinFindRecordOffset(f, rs, key) == JoinScanFrom(f, rs, key, 0)

\* A parent index that lists nothing new.
AppendChildNothing(pc, parentID, item) == pc

\* m.parentCache[parentID] = append(m.parentCache[parentID], item)
AppendChild(pc, parentID, item) ==
    Put(pc, parentID,
        (IF parentID \in DOMAIN pc THEN pc[parentID] ELSE <<>>) \o <<item>>)

\* A Delete that leaves the parent index as it was.
RemoveChildNothing(pc, parentID, key) == pc

\* The loop of Delete over m.parentCache[parentID]: the first entry whose
\* composite key is key is cut out of the list.
RemoveChild(pc, parentID, key) ==
    IF parentID \notin DOMAIN pc THEN pc
    ELSE LET items == pc[parentID]
             hit == {i \in 1..Len(items) : GetCompositeKey(items[i]) = key}
         IN  IF hit = {} THEN pc
             ELSE LET i == CHOOSE x \in hit : \A y \in hit : x <= y
                  IN  Put(pc, parentID,
                          SubSeq(items, 1, i - 1) \o
                          SubSeq(items, i + 1, Len(items)))

(* --------------- the arrays behind the parent index ------------------- *)
\* A list of the parent index is a Go slice: the first cells of an array
\* that may be longer. backing.arr maps a parent to its array, all cells of
\* it; parentCache holds the cells the slice shows. backing.held is the
\* slice a caller of GetByParentID holds, as long as it shows cells of the
\* array the manager writes to: its parent and its length.
\* The interleaved specifications have no caller that keeps a list and leave
\* backing as it starts.
NoHeld == [parent |-> 0, len |-> 0]
NoBacking == [arr |-> EmptyMap, held |-> NoHeld]

\* The capacity append gives a new array when the old one of c cells is full.
GrowCap(c) == IF c = 0 THEN 1 ELSE 2 * c

\* The cells of parent p's array, none for a parent without a list.
ArrayOf(b, p) == IF p \in DOMAIN b.arr THEN b.arr[p] ELSE <<>>

\* append(m.parentCache[parentID], item) on a list of n items: the item goes
\* into the next cell of the array when there is one, otherwise the list
\* moves to a new array and a slice held on the old one is on its own.
BkAppend(b, p, n, item) ==
    LET old == ArrayOf(b, p)
    IN  IF n < Len(old)
        THEN [b EXCEPT !.arr = Put(b.arr, p, [old EXCEPT ![n + 1] = item])]
        ELSE [arr  |-> Put(b.arr, p,
                           [i \in 1..GrowCap(Len(old)) |->
                               IF i <= n THEN old[i]
                               ELSE IF i = n + 1 THEN item ELSE NoJoinItem]),
              held |-> IF b.held.parent = p THEN NoHeld ELSE b.held]

\* append(items[:i], items[i+1:]...) on a list of n items: the cells after
\* the i-th move down by one within the array, the n-th cell keeps its value.
BkCut(b, p, n, i) ==
    [b EXCEPT !.arr[p] = [j \in 1..Len(@) |->
                             IF j >= i /\ j < n THEN @[j + 1] ELSE @[j]]]

\* The arrays loadAllDataToCache leaves: each list appended to item by item.
RECURSIVE BkLoadList(_, _, _, _)
BkLoadList(b, p, items, n) ==
    IF n = Len(items) THEN b
    ELSE BkLoadList(BkAppend(b, p, n, items[n + 1]), p, items, n + 1)

RECURSIVE BkLoadFrom(_, _, _)
BkLoadFrom(b, pc, ps) ==
    IF ps = {} THEN b
    ELSE LET p == CHOOSE x \in ps : TRUE
         IN  BkLoadFrom(BkLoadList(b, p, pc[p], 0), pc, ps \ {p})

BkLoad(pc) == BkLoadFrom(NoBacking, pc, DOMAIN pc)

\* What a mutating call of the relationship manager that ended with error
\* err leaves of the arrays: pc is the parent index before it, dc the primary
\* cache after it.
JoinBacking(b, op, err, key, pc, dc) ==
    LET p     == ParentOf(key)
        items == IF p \in DOMAIN pc THEN pc[p] ELSE <<>>
        hit   == {i \in 1..Len(items) : GetCompositeKey(items[i]) = key}
    IN  IF err # "nil" THEN b
        ELSE IF op \in {"Create", "Clone"}
        THEN BkAppend(b, p, Len(items), dc[key])
        ELSE IF op = "Delete" /\ hit # {}
        THEN BkCut(b, p, Len(items),
                   CHOOSE x \in hit : \A y \in hit : x <= y)
        ELSE b

\* The list the caller of GetByParentID holds, as the caller reads it now.
HeldList ==
    IF backing.held = NoHeld THEN <<>>
    ELSE SubSeq(backing.arr[backing.held.parent], 1, backing.held.len)

\* Manager.loadAllDataToCache of the relationship manager, from offset on.
RECURSIVE JoinLoadFrom(_, _, _, _, _)
JoinLoadFrom(f, rs, offset, dc, pc) ==
    IF offset >= Len(f) THEN [dataCache |-> dc, parentCache |-> pc]
    ELSE LET r == ReadRecord(f, rs, offset)
             u == UnmarshalJoin(r.data)
             key == GetCompositeKey(u.item)
         IN  IF r.err # "nil" \/ u.err # "nil"
             THEN JoinLoadFrom(f, rs, offset + rs, dc, pc)
             ELSE JoinLoadFrom(f, rs, offset + rs,
                               Put(dc, key, u.item),
                               AppendChild(pc, ParentOf(key), u.item))

JoinLoadAllDataToCache(f, rs) == JoinLoadFrom(f, rs, 0, EmptyMap, EmptyMap)

\* New[T](dirName, fileName) of the relationship manager on the file a closed
\* manager left.
JoinNew ==
    /\ kind = "join"
    /\ closed
    /\ LET l == JoinLoadAllDataToCache(file, recordSize)
       IN  /\ dataCache' = l.dataCache
           /\ parentCache' = l.parentCache
    /\ closed' = FALSE
    /\ fhOpen' = TRUE
    /\ backing' = BkLoad(parentCache')
    /\ last' = [NoCall EXCEPT !.op = "New"]
    /\ UNCHANGED <<web, threads, kind, recordSize, file, heap, nextId, snap>>

\* The body Create and Clone of the relationship manager share: Create's
\* timestamping is skipped for an item that is not Timestampable.
JoinInsertOut(item, ioOk) ==
    LET key  == GetCompositeKey(item)
        data == MarshalJoin(item)
        w    == WriteRecord(file, recordSize, data, ioOk /\ fhOpen)
    IN  IF closed
        THEN Outcome("closed", key, -1, file, heap, dataCache, parentCache,
                     nextId)
        ELSE IF key \in DOMAIN dataCache
        THEN Outcome("exists", key, -1, file, heap, dataCache, parentCache,
                     nextId)
        ELSE IF w.err # "nil"
        THEN Outcome(w.err, key, -1, file, heap, dataCache, parentCache,
                     nextId)
        ELSE Outcome("nil", key, w.offset, w.file, heap,
                     Put(dataCache, key, item),
                     AppendChild(parentCache, ParentOf(key), item), nextId)

\* The whole of a mutating call of the relationship manager.
JoinApply(op, out) ==
    /\ file' = out.file
    /\ dataCache' = out.dataCache
    /\ parentCache' = out.parentCache
    /\ last' = [op |-> op, key |-> out.key, err |-> out.err, off |-> out.off]
    /\ snap' = NoSnap
    /\ backing' = JoinBacking(backing, op, out.err, out.key, parentCache,
                              out.dataCache)
    /\ UNCHANGED <<web, threads, kind, recordSize, fhOpen, heap, closed, nextId>>

JoinInsert(op) ==
    /\ kind = "join"
    /\ Len(file) < MaxSlots * recordSize
    /\ \E item \in JoinValues, ioOk \in BOOLEAN :
         JoinApply(op, JoinInsertOut(item, ioOk))

\* Manager.Create(item) of the relationship manager.
JoinCreate == JoinInsert("Create")

\* Manager.Clone(item) of the relationship manager.
JoinClone == JoinInsert("Clone")

\* Manager.Read(key) of the relationship manager: the item returned.
JoinReadResult(key) ==
    IF key \in DOMAIN dataCache
    THEN [err |-> "nil", item |-> dataCache[key]]
    ELSE [err |-> "not found", item |-> NoJoinItem]

JoinRead ==
    /\ kind = "join"
    /\ \E key \in JoinKeys : JoinReadResult(key).err \in {"nil", "not found"}
    /\ UNCHANGED vars

\* What Update of the relationship manager leaves in the caches.
JoinUpdateCaches(dc, pc, key, item) ==
    [dataCache |-> Put(dc, key, item), parentCache |-> pc]

\* Manager.Update(item) of the relationship manager.
JoinUpdateOut(item, ioOk) ==
    LET key  == GetCompositeKey(item)
        loc  == JoinFindRecordOffset(file, recordSize, key)
        data == MarshalJoin(item)
        u    == UpdateRecord(file, recordSize, loc.offset, data,
                             ioOk /\ fhOpen)
        c    == JoinUpdateCaches(dataCache, parentCache, key, item)
    IN  IF key \notin DOMAIN dataCache
        THEN Outcome("not exist", key, -1, file, heap, dataCache, parentCache,
                     nextId)
        ELSE IF loc.err # "nil"
        THEN Outcome(loc.err, key, -1, file, heap, dataCache, parentCache,
                     nextId)
        ELSE IF u.err # "nil"
        THEN Outcome(u.err, key, loc.offset, file, heap, dataCache,
                     parentCache, nextId)
        ELSE Outcome("nil", key, loc.offset, u.file, heap, c.dataCache,
                     c.parentCache, nextId)

JoinUpdate ==
    /\ kind = "join"
    /\ \E item \in JoinValues, ioOk \in BOOLEAN :
         JoinApply("Update", JoinUpdateOut(item, ioOk))

\* Manager.Delete(key) of the relationship manager.
JoinDeleteOut(key, ioOk) ==
    LET loc == JoinFindRecordOffset(file, recordSize, key)
        d   == DeleteRecord(file, loc.offset, ioOk /\ fhOpen)
    IN  IF key \notin DOMAIN dataCache
        THEN Outcome("not found", key, -1, file, heap, dataCache, parentCache,
                     nextId)
        ELSE IF loc.err # "nil"
        THEN Outcome(loc.err, key, -1, file, heap, dataCache, parentCache,
                     nextId)
        ELSE IF d.err # "nil"
        THEN Outcome(d.err, key, loc.offset, file, heap, dataCache,
                     parentCache, nextId)
        ELSE Outcome("nil", key, loc.offset, d.file, heap,
                     Remove(dataCache, key),
                     RemoveChild(parentCache, ParentOf(key), key), nextId)

JoinDelete ==
    /\ kind = "join"
    /\ \E key \in JoinKeys, ioOk \in BOOLEAN :
         JoinApply("Delete", JoinDeleteOut(key, ioOk))

\* Manager.GetByParentID(parentID): the list returned.
GetByParentIDResult(parentID) ==
    IF parentID \notin DOMAIN parentCache \/ Len(parentCache[parentID]) = 0
    THEN [err |-> "no items", items |-> <<>>]
    ELSE [err |-> "nil", items |-> parentCache[parentID]]

\* The caller keeps the list a GetByParentID that succeeds returns: the
\* slice m.parentCache[parentIDStr] itself, not a copy of it.
GetByParentID ==
    /\ kind = "join"
    /\ \E parentID \in 1..MaxParent :
         LET r == GetByParentIDResult(parentID)
         IN  /\ r.err \in {"nil", "no items"}
             /\ IF r.err = "nil"
                THEN backing' = [backing EXCEPT
                                   !.held = [parent |-> parentID,
                                             len |-> Len(r.items)]]
                ELSE UNCHANGED backing
             /\ last' = [op |-> "GetByParentID", key |-> <<parentID, 0>>,
                         err |-> r.err, off |-> -1]
    /\ UNCHANGED <<web, threads, kind, recordSize, file, fhOpen, heap, dataCache,
                   parentCache, closed, nextId, snap>>

JoinCount ==
    /\ kind = "join"
    /\ CountResult >= 0
    /\ UNCHANGED vars

\* Manager.Close() of the relationship manager.
JoinClose ==
    /\ kind = "join"
    /\ IF closed
       THEN UNCHANGED <<fhOpen, dataCache, parentCache, closed, snap, backing>>
       ELSE /\ closed' = TRUE
            /\ dataCache' = NilCache(dataCache)
            /\ parentCache' = EmptyMap
            /\ backing' = NoBacking
            /\ fhOpen' = FALSE
            /\ snap' = [data |-> dataCache, parent |-> parentCache]
    /\ last' = [NoCall EXCEPT !.op = "Close"]
    /\ UNCHANGED <<web, threads, kind, recordSize, file, heap, nextId>>

(* ------------------------ the FileHandler alone ----------------------- *)
\* Payloads handed to the FileHandler: any bytes, zero bytes included, up to
\* one byte more than a slot holds.
Payloads == SeqsOf({0, 1}, 0, recordSize)

\* Offsets handed to the FileHandler: a negative one, every slot, end-of-file.
Offsets == {-recordSize} \cup {o \in 0..Len(file) : o % recordSize = 0}

\* A call on a closed os.File fails.
FhWriteRecord ==
    /\ kind = "file"
    /\ Len(file) < MaxSlots * recordSize
    /\ \E data \in Payloads :
         LET w == WriteRecord(file, recordSize, data, fhOpen)
         IN  /\ file' = w.file
             /\ last' = [NoCall EXCEPT !.op = "WriteRecord", !.err = w.err,
                                       !.off = w.offset]
    /\ UNCHANGED <<web, conc, kind, recordSize, fhOpen, heap, dataCache, parentCache,
                   closed, nextId, snap>>

\* What ReadRecord(offset) returns on the handle as it stands: ReadAt on a
\* closed os.File fails with an error that is not io.EOF.
FhReadResult(offset) ==
    IF ~fhOpen THEN [err |-> "io", data |-> <<>>]
    ELSE ReadRecord(file, recordSize, offset)

FhReadRecord ==
    /\ kind = "file"
    /\ \E offset \in Offsets : FhReadResult(offset).err # "none"
    /\ UNCHANGED vars

FhUpdateRecord ==
    /\ kind = "file"
    /\ \E offset \in Offsets, data \in Payloads :
         /\ offset + recordSize <= MaxSlots * recordSize
         /\ LET u == UpdateRecord(file, recordSize, offset, data, fhOpen)
            IN  /\ file' = u.file
                /\ last' = [NoCall EXCEPT !.op = "UpdateRecord",
                                          !.key = offset, !.err = u.err,
                                          !.off = IF u.err = "nil"
                                                  THEN offset ELSE -1]
    /\ UNCHANGED <<web, conc, kind, recordSize, fhOpen, heap, dataCache, parentCache,
                   closed, nextId, snap>>

FhDeleteRecord ==
    /\ kind = "file"
    /\ \E offset \in Offsets :
         /\ offset < MaxSlots * recordSize
         /\ LET d == DeleteRecord(file, offset, fhOpen)
            IN  /\ file' = d.file
                /\ last' = [NoCall EXCEPT !.op = "DeleteRecord",
                                          !.key = offset, !.err = d.err,
                                          !.off = IF d.err = "nil"
                                                  THEN offset ELSE -1]
    /\ UNCHANGED <<web, conc, kind, recordSize, fhOpen, heap, dataCache, parentCache,
                   closed, nextId, snap>>

\* FileHandler.Close()
FhClose ==
    /\ kind = "file"
    /\ fhOpen' = FALSE
    /\ last' = [NoCall EXCEPT !.op = "Close",
                              !.err = IF fhOpen THEN "nil" ELSE "io"]
    /\ UNCHANGED <<web, conc, kind, recordSize, file, heap, dataCache, parentCache,
                   closed, nextId, snap>>

(* --------------------------- specification ---------------------------- *)
\* The threads that call the manager.
Threads == 1..MaxThreads

(* ------------------------- the router's tree -------------------------- *)
\* A path is a sequence of characters. A nil HandlersChain is the empty
\* one: the chains registered here hold a handler each.
NilHandlers == <<>>

\* A nil map of parameters; it reads as an empty one.
NilParams == EmptyMap

\* s without its first n characters: s[n:].
Drop(s, n) == SubSeq(s, n + 1, Len(s))

\* &node{...}: a node without children.
Leaf(path, handlers, fullPath, isParam) ==
    [path |-> path, children |-> <<>>, handlers |-> handlers,
     fullPath |-> fullPath, isParam |-> isParam,
     paramName |-> IF isParam THEN Drop(path, 1) ELSE <<>>]

\* add, the loop that finds the length of the common prefix of two paths.
CommonPrefix(a, b) ==
    LET differ == {i \in 1..Min(Len(a), Len(b)) : a[i] # b[i]}
    IN  IF differ = {} THEN Min(Len(a), Len(b))
        ELSE (CHOOSE i \in differ : \A j \in differ : i <= j) - 1

\* The children the loops of add and find stop at when they look for the
\* static child of character ch: a static child whose path begins with ch,
\* or one whose path is empty, where child.path[0] panics.
StopsAt(n, ch) ==
    {k \in 1..Len(n.children) :
        /\ ~n.children[k].isParam
        /\ \/ Len(n.children[k].path) = 0
           \/ n.children[k].path[1] = ch}

First(ks) == CHOOSE k \in ks : \A j \in ks : k <= j

\* The result of add when child.path[0] panics.
AddPanics == [panic |-> TRUE, node |-> Leaf(<<>>, NilHandlers, <<>>, FALSE)]

\* node.add(path, handlers, fullPath): the node afterwards.
RECURSIVE add(_, _, _, _)
add(n, path, handlers, fullPath) ==
    LET i         == CommonPrefix(n.path, path)
        childPath == Drop(path, Len(n.path))
        set       == [panic |-> FALSE,
                      node  |-> [n EXCEPT !.handlers = handlers,
                                          !.fullPath = fullPath]]
    IN  IF Len(path) = 0 THEN set
        ELSE IF i = Len(n.path)
        THEN IF Len(path) = Len(n.path) THEN set
             ELSE IF childPath[1] \in {":", "*"}
             THEN IF Len(n.children) > 0 /\ n.children[1].isParam
                  THEN LET sub == add(n.children[1], childPath, handlers,
                                      fullPath)
                       IN  IF sub.panic THEN AddPanics
                           ELSE [panic |-> FALSE,
                                 node  |-> [n EXCEPT !.children[1] = sub.node]]
                  ELSE [panic |-> FALSE,
                        node  |-> [n EXCEPT !.children =
                                     <<Leaf(childPath, handlers, fullPath,
                                            TRUE)>> \o @]]
             ELSE IF StopsAt(n, childPath[1]) # {}
             THEN LET k   == First(StopsAt(n, childPath[1]))
                      sub == add(n.children[k], childPath, handlers, fullPath)
                  IN  IF Len(n.children[k].path) = 0 \/ sub.panic
                      THEN AddPanics
                      ELSE [panic |-> FALSE,
                            node  |-> [n EXCEPT !.children[k] = sub.node]]
             ELSE [panic |-> FALSE,
                   node  |-> [n EXCEPT !.children =
                                Append(@, Leaf(childPath, handlers, fullPath,
                                               FALSE))]]
        ELSE [panic |-> FALSE,
              node  |-> [path |-> SubSeq(n.path, 1, i),
                         children |-> <<[n EXCEPT !.path = Drop(n.path, i)],
                                        Leaf(Drop(path, i), handlers,
                                             fullPath, FALSE)>>,
                         handlers |-> NilHandlers, fullPath |-> <<>>,
                         isParam |-> FALSE, paramName |-> <<>>]]

\* What find returns: the handlers and the parameters, or a panic.
Found(handlers, params) ==
    [panic |-> FALSE, handlers |-> handlers, params |-> params]
FindPanics == [panic |-> TRUE, handlers |-> NilHandlers, params |-> NilParams]

\* node.find(path).
RECURSIVE find(_, _)
find(n, path) ==
    LET rest   == Drop(path, Len(n.path))
        params == {k \in 1..Len(n.children) : n.children[k].isParam}
    IN  IF Len(path) = 0 THEN Found(n.handlers, NilParams)
        ELSE IF Len(path) >= Len(n.path)
                  /\ SubSeq(path, 1, Len(n.path)) = n.path
        THEN IF Len(rest) = 0 THEN Found(n.handlers, NilParams)
             ELSE IF StopsAt(n, rest[1]) # {}
             THEN LET k == First(StopsAt(n, rest[1]))
                  IN  IF Len(n.children[k].path) = 0 THEN FindPanics
                      ELSE find(n.children[k], rest)
             ELSE IF params # {}
             THEN LET child == n.children[First(params)]
                  IN  Found(child.handlers,
                            Put(NilParams, child.paramName, rest))
             ELSE Found(NilHandlers, NilParams)
        ELSE Found(NilHandlers, NilParams)

\* Engine.router[method]: nil, the root of the tree, or gone with the
\* program when addRoute panicked.
NoRouter == [state |-> "nil", root |-> Leaf(<<>>, NilHandlers, <<"/">>, FALSE)]

\* The Context of no request.
NoContext ==
    [status |-> "none", path |-> <<>>, Handlers |-> NilHandlers,
     Params |-> NilParams, index8 |-> FALSE, index |-> -1, depth |-> 0,
     called |-> <<>>, abortedAt |-> -1]

\* A thread between calls.
Idle == [op |-> "none", at |-> "idle"]

\* Manager.mu held by nobody.
MuFree == [w |-> {}, r |-> {}]

\* A thread with nothing to store.
NoPend == Outcome("nil", NoKey, -1, <<>>, EmptyMap, EmptyMap, EmptyMap, 0)

Init ==
    /\ kind \in {"identity", "join", "file"}
    /\ recordSize = (IF kind = "identity" THEN IdRecordSize
                     ELSE IF kind = "join" THEN JoinRecordSize
                     ELSE FhRecordSize)
    /\ file = <<>>
    /\ fhOpen = TRUE
    /\ heap = EmptyMap
    /\ dataCache = EmptyMap
    /\ parentCache = EmptyMap
    /\ closed = FALSE
    /\ nextId = 1
    /\ snap = NoSnap
    /\ last = [NoCall EXCEPT !.op = "New"]
    /\ pcs = [t \in Threads |-> Idle]
    /\ mu = MuFree
    /\ pend = [t \in Threads |-> NoPend]
    /\ calls = 0
    /\ fhmu = MuFree
    /\ backing = NoBacking
    /\ router = NoRouter
    /\ routes = EmptyMap
    /\ ctx = NoContext

Next ==
    \/ IdNew
    \/ IdCreate
    \/ IdRead
    \/ IdUpdate
    \/ IdDelete
    \/ IdCount
    \/ IdClose
    \/ JoinNew
    \/ JoinCreate
    \/ JoinClone
    \/ JoinRead
    \/ JoinUpdate
    \/ JoinDelete
    \/ GetByParentID
    \/ JoinCount
    \/ JoinClose
    \/ FhWriteRecord
    \/ FhReadRecord
    \/ FhUpdateRecord
    \/ FhDeleteRecord
    \/ FhClose

Spec == Init /\ [][Next]_vars

(* ------------------- threads calling one manager --------------------- *)
\* A mutex whose Lock never waits.
CanLockAlways(m) == TRUE

\* sync.RWMutex: Lock returns when nobody holds the mutex.
CanLock(m) == m.w = {} /\ m.r = {}

\* sync.RWMutex: RLock returns when nobody holds the mutex for writing.
CanRLock(m) == m.w = {}

\* An Unlock that releases nothing.
ReleaseNothing(m, t) == m

\* sync.RWMutex.Unlock and RUnlock of thread t.
ReleaseW(m, t) == [m EXCEPT !.w = @ \ {t}]
ReleaseR(m, t) == [m EXCEPT !.r = @ \ {t}]

\* The calls that take m.mu.Lock() and those that take m.mu.RLock().
MutOps ==
    IF kind = "identity" THEN {"Create", "Update", "Delete", "Close"}
    ELSE {"Create", "Clone", "Update", "Delete", "Close"}
ReadOps ==
    IF kind = "identity" THEN {"Read", "ReadAll", "Count"}
    ELSE {"Read", "ReadAll", "Count", "GetByParentID"}

\* The outcomes a call of op can have, over the arguments it may be given.
ConcOuts(op) ==
    IF kind = "identity"
    THEN IF op = "Create"
         THEN {IdCreateOut(a, ioOk) :
                  a \in CallArgs(heap, IdValues), ioOk \in BOOLEAN}
         ELSE IF op = "Update"
         THEN {IdUpdateOut(a, ioOk) :
                  a \in CallArgs(heap, IdValues), ioOk \in BOOLEAN}
         ELSE {IdDeleteOut(id, ioOk) : id \in 0..MaxId, ioOk \in BOOLEAN}
    ELSE IF op \in {"Create", "Clone"}
         THEN {JoinInsertOut(item, ioOk) :
                  item \in JoinValues, ioOk \in BOOLEAN}
         ELSE IF op = "Update"
         THEN {JoinUpdateOut(item, ioOk) :
                  item \in JoinValues, ioOk \in BOOLEAN}
         ELSE {JoinDeleteOut(key, ioOk) : key \in JoinKeys, ioOk \in BOOLEAN}

\* The manager is in the callers' hands once New has returned.
Published == \A t \in Threads : pcs[t].op # "New"

\* The files a manager can have left behind: none, or one record.
ConcFiles ==
    IF kind = "identity"
    THEN {<<>>, RecordBuffer(IdRecordSize,
                   MarshalId([ID |-> 1, Name |-> <<>>,
                              CreatedAt |-> Now, UpdatedAt |-> 0]))}
    ELSE {<<>>, RecordBuffer(JoinRecordSize,
                   MarshalJoin([AlbumID |-> 1, PhotoID |-> 1, Name |-> <<>>]))}

\* New: m.mu.Lock() at the head of loadAllDataToCache.
LoadLock(t) ==
    /\ pcs[t] = [op |-> "New", at |-> "start"]
    /\ CanLock(mu)
    /\ mu' = [mu EXCEPT !.w = @ \cup {t}]
    /\ pcs' = [pcs EXCEPT ![t].at = "locked"]
    /\ UNCHANGED <<web, backing, fhmu, kind, recordSize, file, fhOpen, heap, dataCache,
                   parentCache, closed, nextId, snap, last, pend, calls>>

\* New: the scan of loadAllDataToCache.
LoadScan(t) ==
    /\ pcs[t] = [op |-> "New", at |-> "locked"]
    /\ IF kind = "identity"
       THEN LET l == IdLoadAllDataToCache(file, recordSize)
            IN  /\ heap' = Collect(l.heap, l.dataCache)
                /\ dataCache' = l.dataCache
                /\ UNCHANGED parentCache
       ELSE LET l == JoinLoadAllDataToCache(file, recordSize)
            IN  /\ dataCache' = l.dataCache
                /\ parentCache' = l.parentCache
                /\ UNCHANGED heap
    /\ pcs' = [pcs EXCEPT ![t].at = "cached"]
    /\ UNCHANGED <<web, backing, fhmu, kind, recordSize, file, fhOpen, closed, nextId, snap, last,
                   mu, pend, calls>>

\* A Lock at the head of a mutating call that does not wait for m.mu.
LockNoWait(t) ==
    /\ Published
    /\ pcs[t] = Idle
    /\ calls < MaxCalls
    /\ \E op \in MutOps :
         /\ op = "Create" /\ kind = "identity" => nextId <= MaxId
         /\ op \in {"Create", "Clone"} /\ kind = "join"
              => Len(file) < MaxSlots * recordSize
         /\ pcs' = [pcs EXCEPT ![t] = [op |-> op, at |-> "locked"]]
    /\ mu' = [mu EXCEPT !.w = @ \cup {t}]
    /\ calls' = calls + 1
    /\ UNCHANGED <<web, backing, fhmu, kind, recordSize, file, fhOpen, heap, dataCache,
                   parentCache, closed, nextId, snap, last, pend>>

\* m.mu.Lock() at the head of Create, Clone, Update, Delete and Close.
Lock(t) ==
    /\ Published
    /\ pcs[t] = Idle
    /\ calls < MaxCalls
    /\ CanLock(mu)
    /\ \E op \in MutOps :
         /\ op = "Create" /\ kind = "identity" => nextId <= MaxId
         /\ op \in {"Create", "Clone"} /\ kind = "join"
              => Len(file) < MaxSlots * recordSize
         /\ pcs' = [pcs EXCEPT ![t] = [op |-> op, at |-> "locked"]]
    /\ mu' = [mu EXCEPT !.w = @ \cup {t}]
    /\ calls' = calls + 1
    /\ UNCHANGED <<web, backing, fhmu, kind, recordSize, file, fhOpen, heap, dataCache,
                   parentCache, closed, nextId, snap, last, pend>>

\* Create, Clone, Update, Delete up to and including the file operation.
FileStep(t) ==
    /\ pcs[t].at = "locked"
    /\ pcs[t].op \in {"Create", "Clone", "Update", "Delete"}
    /\ \E out \in ConcOuts(pcs[t].op) :
         /\ file' = out.file
         /\ heap' = out.heap
         /\ nextId' = out.nextId
         /\ pend' = [pend EXCEPT ![t] = out]
    /\ pcs' = [pcs EXCEPT ![t].at = "written"]
    /\ UNCHANGED <<web, backing, fhmu, kind, recordSize, fhOpen, dataCache, parentCache, closed,
                   snap, last, mu, calls>>

\* Create, Clone, Update, Delete from the file operation to the return.
CacheStep(t) ==
    /\ pcs[t].at = "written"
    /\ dataCache' = pend[t].dataCache
    /\ parentCache' = pend[t].parentCache
    /\ heap' = (IF kind = "identity" THEN Collect(heap, pend[t].dataCache)
                ELSE heap)
    /\ pcs' = [pcs EXCEPT ![t].at = "cached"]
    /\ UNCHANGED <<web, backing, fhmu, kind, recordSize, file, fhOpen, closed, nextId, snap, last,
                   mu, pend, calls>>

\* The body of Close.
CloseStep(t) ==
    /\ pcs[t] = [op |-> "Close", at |-> "locked"]
    /\ IF closed
       THEN UNCHANGED <<fhOpen, heap, dataCache, parentCache, closed>>
       ELSE /\ closed' = TRUE
            /\ dataCache' = EmptyMap
            /\ parentCache' = EmptyMap
            /\ heap' = EmptyMap
            /\ fhOpen' = FALSE
    /\ pcs' = [pcs EXCEPT ![t].at = "cached"]
    /\ UNCHANGED <<web, backing, fhmu, kind, recordSize, file, nextId, snap, last, mu, pend,
                   calls>>

\* The deferred m.mu.Unlock() and the return.
Unlock(t) ==
    /\ pcs[t].at = "cached"
    /\ mu' = ReleaseW(mu, t)
    /\ last' = [op |-> pcs[t].op, key |-> pend[t].key, err |-> pend[t].err,
                off |-> pend[t].off]
    /\ pcs' = [pcs EXCEPT ![t] = Idle]
    /\ pend' = [pend EXCEPT ![t] = NoPend]
    /\ UNCHANGED <<web, backing, fhmu, kind, recordSize, file, fhOpen, heap, dataCache,
                   parentCache, closed, nextId, snap, calls>>

\* m.mu.RLock() at the head of Read, ReadAll, Count and GetByParentID.
RLock(t) ==
    /\ Published
    /\ pcs[t] = Idle
    /\ calls < MaxCalls
    /\ CanRLock(mu)
    /\ \E op \in ReadOps : pcs' = [pcs EXCEPT ![t] = [op |-> op, at |-> "rlocked"]]
    /\ mu' = [mu EXCEPT !.r = @ \cup {t}]
    /\ calls' = calls + 1
    /\ UNCHANGED <<web, backing, fhmu, kind, recordSize, file, fhOpen, heap, dataCache,
                   parentCache, closed, nextId, snap, last, pend>>

\* The read of the cache, the deferred m.mu.RUnlock() and the return.
RUnlock(t) ==
    /\ pcs[t].at = "rlocked"
    /\ mu' = ReleaseR(mu, t)
    /\ pcs' = [pcs EXCEPT ![t] = Idle]
    /\ UNCHANGED <<web, backing, fhmu, kind, recordSize, file, fhOpen, heap, dataCache,
                   parentCache, closed, nextId, snap, last, pend, calls>>

\* One thread is in New on a file an earlier manager left; the others get
\* the manager when New returns.
InitConc ==
    /\ kind \in {"identity", "join"}
    /\ recordSize = (IF kind = "identity" THEN IdRecordSize ELSE JoinRecordSize)
    /\ file \in ConcFiles
    /\ fhOpen = TRUE
    /\ heap = EmptyMap
    /\ dataCache = EmptyMap
    /\ parentCache = EmptyMap
    /\ closed = FALSE
    /\ nextId = (IF file = <<>> THEN 1 ELSE 2)
    /\ snap = NoSnap
    /\ last = NoCall
    /\ pcs = [t \in Threads |->
                IF t = 1 THEN [op |-> "New", at |-> "start"] ELSE Idle]
    /\ mu = MuFree
    /\ pend = [t \in Threads |-> NoPend]
    /\ calls = 0
    /\ fhmu = MuFree
    /\ backing = NoBacking
    /\ router = NoRouter
    /\ routes = EmptyMap
    /\ ctx = NoContext

NextConc ==
    \E t \in Threads :
        \/ LoadLock(t)
        \/ LoadScan(t)
        \/ Lock(t)
        \/ FileStep(t)
        \/ CacheStep(t)
        \/ CloseStep(t)
        \/ Unlock(t)
        \/ RLock(t)
        \/ RUnlock(t)

SpecConc == InitConc /\ [][NextConc]_vars

(* ------------------ the same calls, lock by lock ---------------------- *)
\* The errors a mutating call returns before it calls the FileHandler.
EarlyErrs == {"closed", "exists", "not exist", "not found"}

\* A thread calls a method of the manager; it has still to get m.mu.
Invoke(t) ==
    /\ Published
    /\ pcs[t] = Idle
    /\ calls < MaxLockCalls
    /\ \E op \in MutOps \cup ReadOps :
         /\ op = "Create" /\ kind = "identity" => nextId <= MaxId
         /\ op \in {"Create", "Clone"} /\ kind = "join"
              => Len(file) < MaxSlots * recordSize
         /\ pcs' = [pcs EXCEPT ![t] = [op |-> op, at |-> "call"]]
    /\ calls' = calls + 1
    /\ UNCHANGED <<web, backing, kind, recordSize, file, fhOpen, heap, dataCache,
                   parentCache, closed, nextId, snap, last, mu, pend, fhmu>>

\* m.mu.Lock() returns in Create, Clone, Update, Delete or Close.
AcquireW(t) ==
    /\ pcs[t].at = "call"
    /\ pcs[t].op \in MutOps
    /\ CanLock(mu)
    /\ mu' = [mu EXCEPT !.w = @ \cup {t}]
    /\ pcs' = [pcs EXCEPT ![t].at = "locked"]
    /\ UNCHANGED <<web, backing, kind, recordSize, file, fhOpen, heap, dataCache,
                   parentCache, closed, nextId, snap, last, pend, calls, fhmu>>

\* m.mu.RLock() returns in Read, ReadAll, Count or GetByParentID.
AcquireR(t) ==
    /\ pcs[t].at = "call"
    /\ pcs[t].op \in ReadOps
    /\ CanRLock(mu)
    /\ mu' = [mu EXCEPT !.r = @ \cup {t}]
    /\ pcs' = [pcs EXCEPT ![t].at = "rlocked"]
    /\ UNCHANGED <<web, backing, kind, recordSize, file, fhOpen, heap, dataCache,
                   parentCache, closed, nextId, snap, last, pend, calls, fhmu>>

\* A Close that never takes the manager for closed.
CloseNeverEarly == FALSE

\* Close: if m.closed { return nil }.
CloseReturnsEarly == closed

\* A mutating call from m.mu.Lock() to its first call of the FileHandler, or
\* to its return when it fails before: the scan of New, the closed check and
\* the cache teardown of Close, and the checks, setters and json.Marshal of
\* Create, Clone, Update and Delete.
Body(t) ==
    /\ pcs[t].at = "locked"
    /\ IF pcs[t].op = "New"
       THEN /\ pcs' = [pcs EXCEPT ![t].at = "scan"]
            /\ UNCHANGED <<heap, dataCache, parentCache, closed, nextId, pend>>
       ELSE IF pcs[t].op = "Close"
       THEN IF CloseReturnsEarly
            THEN /\ pcs' = [pcs EXCEPT ![t].at = "cached"]
                 /\ UNCHANGED <<heap, dataCache, parentCache, closed, nextId,
                                pend>>
            ELSE /\ closed' = TRUE
                 /\ dataCache' = EmptyMap
                 /\ parentCache' = EmptyMap
                 /\ heap' = EmptyMap
                 /\ pcs' = [pcs EXCEPT ![t].at = "fhcall"]
                 /\ UNCHANGED <<nextId, pend>>
       ELSE \E out \in ConcOuts(pcs[t].op) :
              /\ nextId' = out.nextId
              /\ pend' = [pend EXCEPT ![t] = out]
              /\ heap' = (IF out.err \in EarlyErrs /\ kind = "identity"
                          THEN Collect(out.heap, dataCache) ELSE out.heap)
              /\ pcs' = [pcs EXCEPT ![t].at =
                           IF out.err \in EarlyErrs THEN "cached"
                           ELSE IF pcs[t].op \in {"Update", "Delete"}
                           THEN "scan" ELSE "fhcall"]
              /\ UNCHANGED <<dataCache, parentCache, closed>>
    /\ UNCHANGED <<web, backing, kind, recordSize, file, fhOpen, snap, last, mu, calls,
                   fhmu>>

\* h.mu.RLock() returns in ReadRecord, called by the scans of
\* loadAllDataToCache and findRecordOffset (one lock and unlock stand for the
\* pair each slot of the scan takes).
FhRLock(t) ==
    /\ pcs[t].at = "scan"
    /\ CanRLock(fhmu)
    /\ fhmu' = [fhmu EXCEPT !.r = @ \cup {t}]
    /\ pcs' = [pcs EXCEPT ![t].at = "scanning"]
    /\ UNCHANGED <<web, backing, kind, recordSize, file, fhOpen, heap, dataCache,
                   parentCache, closed, nextId, snap, last, mu, pend, calls>>

\* The scan ends and ReadRecord's deferred h.mu.RUnlock() runs: New has its
\* caches, Update and Delete have the offset or fail.
ScanDone(t) ==
    /\ pcs[t].at = "scanning"
    /\ fhmu' = ReleaseR(fhmu, t)
    /\ IF pcs[t].op = "New"
       THEN /\ IF kind = "identity"
               THEN LET l == IdLoadAllDataToCache(file, recordSize)
                    IN  /\ heap' = Collect(l.heap, l.dataCache)
                        /\ dataCache' = l.dataCache
                        /\ UNCHANGED parentCache
               ELSE LET l == JoinLoadAllDataToCache(file, recordSize)
                    IN  /\ dataCache' = l.dataCache
                        /\ parentCache' = l.parentCache
                        /\ UNCHANGED heap
            /\ pcs' = [pcs EXCEPT ![t].at = "cached"]
       ELSE /\ heap' = (IF pend[t].err = "not in file" /\ kind = "identity"
                        THEN Collect(heap, dataCache) ELSE heap)
            /\ pcs' = [pcs EXCEPT ![t].at =
                         IF pend[t].err = "not in file" THEN "cached"
                         ELSE "fhcall"]
            /\ UNCHANGED <<dataCache, parentCache>>
    /\ UNCHANGED <<web, backing, kind, recordSize, file, fhOpen, closed, nextId, snap, last,
                   mu, pend, calls>>

\* h.mu.Lock() returns in WriteRecord, UpdateRecord, DeleteRecord or
\* FileHandler.Close.
FhLock(t) ==
    /\ pcs[t].at = "fhcall"
    /\ CanLock(fhmu)
    /\ fhmu' = [fhmu EXCEPT !.w = @ \cup {t}]
    /\ pcs' = [pcs EXCEPT ![t].at = "fhlocked"]
    /\ UNCHANGED <<web, backing, kind, recordSize, file, fhOpen, heap, dataCache,
                   parentCache, closed, nextId, snap, last, mu, pend, calls>>

\* The file operation and the FileHandler's deferred h.mu.Unlock(); a call
\* whose file operation failed goes on to return.
FhWrite(t) ==
    /\ pcs[t].at = "fhlocked"
    /\ fhmu' = ReleaseW(fhmu, t)
    /\ IF pcs[t].op = "Close"
       THEN /\ fhOpen' = FALSE
            /\ pcs' = [pcs EXCEPT ![t].at = "cached"]
            /\ UNCHANGED <<file, heap>>
       ELSE /\ file' = pend[t].file
            /\ heap' = (IF pend[t].err # "nil" /\ kind = "identity"
                        THEN Collect(heap, dataCache) ELSE heap)
            /\ pcs' = [pcs EXCEPT ![t].at =
                         IF pend[t].err = "nil" THEN "written" ELSE "cached"]
            /\ UNCHANGED fhOpen
    /\ UNCHANGED <<web, backing, kind, recordSize, dataCache, parentCache, closed, nextId,
                   snap, last, mu, pend, calls>>

\* The steps of a thread in which it takes or gives back a lock, reads the
\* file or writes the file or the cache.
LockStep(t) ==
    \/ LoadLock(t)
    \/ AcquireW(t)
    \/ AcquireR(t)
    \/ FhRLock(t)
    \/ ScanDone(t)
    \/ FhLock(t)
    \/ FhWrite(t)
    \/ CacheStep(t)
    \/ Unlock(t)
    \/ RUnlock(t)

NextLock == \E t \in Threads : Invoke(t) \/ Body(t) \/ LockStep(t)

\* The scheduler runs every goroutine that can run: a thread that can take
\* a step does, and a thread in the body of its call, which waits for
\* nothing, gets to the end of it (Body(t) is enabled exactly while
\* pcs[t].at = "locked", so this is weak fairness of Body(t)).
Fair(t) == WF_vars(LockStep(t)) /\ []<>(pcs[t].at # "locked")

SpecLock == InitConc /\ [][NextLock]_vars /\ \A t \in Threads : Fair(t)

(* ----------------------- routes and lookups --------------------------- *)
\* The managers and the FileHandler at rest while component k runs.
StoreIdle(k) ==
    /\ kind = k
    /\ recordSize = FhRecordSize
    /\ file = <<>>
    /\ fhOpen = TRUE
    /\ heap = EmptyMap
    /\ dataCache = EmptyMap
    /\ parentCache = EmptyMap
    /\ closed = FALSE
    /\ nextId = 1
    /\ snap = NoSnap
    /\ last = [op |-> "none", key |-> 0, err |-> "nil", off |-> -1]
    /\ pcs = [t \in Threads |-> Idle]
    /\ mu = MuFree
    /\ pend = [t \in Threads |-> NoPend]
    /\ calls = 0
    /\ fhmu = MuFree
    /\ backing = NoBacking

\* The sequences over set s of length 1 to n.
RECURSIVE SeqsUpTo(_, _)
SeqsUpTo(s, n) ==
    IF n = 0 THEN {}
    ELSE LET shorter == SeqsUpTo(s, n - 1)
         IN  {<<x>> : x \in s} \cup shorter
               \cup {Append(q, x) : q \in shorter, x \in s}

\* The static paths: "/" and the paths of up to MaxPath characters that
\* begin with '/' and go on with 'a' or 'b'.
StaticPaths ==
    {<<"/">>} \cup {<<"/">> \o q : q \in SeqsUpTo({"a", "b"}, MaxPath - 1)}

\* "/users/:id", the dynamic route of cmd/main.go, and what stands before
\* its parameter.
UsersPrefix == <<"/", "u", "s", "e", "r", "s", "/">>
UsersId == UsersPrefix \o <<":", "i", "d">>

\* The segments a request puts in the place of :id.
Segments == SeqsUpTo({"4", "2"}, MaxSegment)

\* The paths routes are registered for and the paths requests ask for.
RoutePaths == StaticPaths \cup {UsersPrefix, UsersId}
RequestPaths == StaticPaths \cup {UsersPrefix \o v : v \in Segments}

\* The handlers chain registered for a path: one handler, the path's own.
HandlersFor(path) == <<path>>

InitRouter ==
    /\ StoreIdle("router")
    /\ router = NoRouter
    /\ routes = EmptyMap
    /\ ctx = NoContext

\* Engine.addRoute(method, path, handlers) for one method; a panic of add
\* ends the program.
AddRoute ==
    /\ router.state # "panic"
    /\ Cardinality(DOMAIN routes) < MaxRoutes
    /\ \E path \in RoutePaths :
         LET r == add(router.root, path, HandlersFor(path), path)
         IN  IF r.panic
             THEN /\ router' = [router EXCEPT !.state = "panic"]
                  /\ UNCHANGED routes
             ELSE /\ router' = [state |-> "tree", root |-> r.node]
                  /\ routes' = Put(routes, path, HandlersFor(path))
    /\ UNCHANGED <<store, ctx>>

\* Engine.ServeHTTP for a request of the method: the Context it builds, a
\* 404, or a panic of find, which the HTTP server recovers from.
ServeHTTP ==
    /\ router.state # "panic"
    /\ \E path \in RequestPaths :
         LET r == find(router.root, path)
         IN  ctx' = [NoContext EXCEPT
                       !.path = path,
                       !.status = IF router.state = "nil" THEN "404"
                                  ELSE IF r.panic THEN "panic"
                                  ELSE IF r.handlers # NilHandlers THEN "200"
                                  ELSE "404",
                       !.Handlers = IF router.state = "nil" \/ r.panic
                                    THEN NilHandlers ELSE r.handlers,
                       !.Params = IF router.state = "nil" \/ r.panic
                                     \/ r.handlers = NilHandlers
                                  THEN NilParams ELSE r.params]
    /\ UNCHANGED <<store, router, routes>>

NextRouter == AddRoute \/ ServeHTTP

SpecRouter == InitRouter /\ [][NextRouter]_vars

(* ------------------------ the handlers chain -------------------------- *)
\* A handler of a chain is told by what it does with the Context: "handler"
\* returns, "middleware" calls c.Next() and returns, "abort" calls c.Abort()
\* and returns. ctx.index8 tells the Context of engin.go, whose index is an
\* int8, from the Context whose index is an int. ctx.depth counts the calls
\* of Next that have not returned, ctx.called lists the handlers invoked, by
\* index, and ctx.abortedAt is how many had been invoked when Abort was
\* called, -1 before.
Behaviours == {"handler", "middleware", "abort"}

\* int8(n).
Int8(n) == ((n + 128) % 256) - 128

\* c.index++.
Incr(c) == [c EXCEPT !.index = IF c.index8 THEN Int8(@ + 1) ELSE @ + 1]

\* The test of Next's loop: c.index < int8(len(c.handlers)) in engin.go,
\* c.index < len(c.Handlers) otherwise.
Pending(c) ==
    c.index < (IF c.index8 THEN Int8(Len(c.Handlers)) ELSE Len(c.Handlers))

\* The index Abort of engin.go sets.
AbortIndex8 == 100

\* Context.Abort().
Abort(c) ==
    [c EXCEPT !.index = IF c.index8 THEN AbortIndex8 ELSE Len(c.Handlers),
              !.abortedAt = Len(c.called)]

\* The chains of requests: up to MaxChain handlers of any behaviour, alone
\* or followed by plain handlers up to LongChain handlers in all.
Chains ==
    UNION {{q, q \o [i \in 1..(LongChain - Len(q)) |-> "handler"]} :
              q \in SeqsUpTo(Behaviours, MaxChain)}

\* The Context as handleHTTPRequest has set it up for a route that was
\* found, before it calls c.Next().
InitChain ==
    /\ StoreIdle("chain")
    /\ router = NoRouter
    /\ routes = EmptyMap
    /\ \E ch \in Chains, i8 \in BOOLEAN :
         ctx = [NoContext EXCEPT !.status = "200", !.Handlers = ch,
                                 !.index8 = i8]

\* The engine calls c.Next(): the first c.index++.
ServeNext ==
    /\ kind = "chain"
    /\ ctx.status = "200"
    /\ ctx' = [Incr(ctx) EXCEPT !.status = "next", !.depth = 1]
    /\ UNCHANGED <<store, router, routes>>

\* Next's loop finds a handler pending and calls it, c.handlers[c.index](c),
\* up to the handler's return and the c.index++ after it or, in a
\* middleware, up to the first c.index++ of the Next it calls. An index
\* below 0 panics.
CallHandler ==
    /\ ctx.status = "next"
    /\ Pending(ctx)
    /\ IF ctx.index < 0
       THEN ctx' = [ctx EXCEPT !.status = "panic"]
       ELSE LET b == ctx.Handlers[ctx.index + 1]
                c == [ctx EXCEPT !.called = Append(@, ctx.index)]
            IN  ctx' = IF b = "handler" THEN Incr(c)
                       ELSE IF b = "abort" THEN Incr(Abort(c))
                       ELSE Incr([c EXCEPT !.depth = @ + 1])
    /\ UNCHANGED <<store, router, routes>>

\* Next's loop finds no handler pending and Next returns: to the engine, or
\* to the middleware that called it, which returns to the loop it was called
\* from, and that loop's c.index++ follows.
NextReturns ==
    /\ ctx.status = "next"
    /\ ~Pending(ctx)
    /\ ctx' = IF ctx.depth = 1
              THEN [ctx EXCEPT !.status = "done", !.depth = 0]
              ELSE Incr([ctx EXCEPT !.depth = @ - 1])
    /\ UNCHANGED <<store, router, routes>>

NextChain == ServeNext \/ CallHandler \/ NextReturns

SpecChain == InitChain /\ [][NextChain]_vars

(* ------------------------ what the claims speak of -------------------- *)
\* The offsets of the slots of a file.
SlotOffsets(f, rs) == {o \in 0..(Len(f) - 1) : o % rs = 0}

\* The slots of an identity file that are active and decode.
IdActive(f, rs) ==
    {o \in SlotOffsets(f, rs) :
        /\ ReadRecord(f, rs, o).err = "nil"
        /\ UnmarshalId(ReadRecord(f, rs, o).data).err = "nil"}
IdSlotItem(f, rs, o) == UnmarshalId(ReadRecord(f, rs, o).data).item

\* The slots of a relationship file that are active and decode.
JoinActive(f, rs) ==
    {o \in SlotOffsets(f, rs) :
        /\ ReadRecord(f, rs, o).err = "nil"
        /\ UnmarshalJoin(ReadRecord(f, rs, o).data).err = "nil"}
JoinSlotItem(f, rs, o) == UnmarshalJoin(ReadRecord(f, rs, o).data).item

\* The cache is the projection of the file's active records.
IdCoherent(f, rs, h, dc) ==
    /\ DOMAIN dc = {IdSlotItem(f, rs, o).ID : o \in IdActive(f, rs)}
    /\ \A o \in IdActive(f, rs) :
         h[dc[IdSlotItem(f, rs, o).ID]] = IdSlotItem(f, rs, o)
JoinCoherent(f, rs, dc) ==
    /\ DOMAIN dc = {GetCompositeKey(JoinSlotItem(f, rs, o)) :
                        o \in JoinActive(f, rs)}
    /\ \A o \in JoinActive(f, rs) :
         dc[GetCompositeKey(JoinSlotItem(f, rs, o))] = JoinSlotItem(f, rs, o)

IsManager == kind \in {"identity", "join"}

(* -------------------------------- C1 ---------------------------------- *)
\* C1: on an open manager the keys of the cache are the keys decoded from the
\* active slots of the file, and each cached value is the value decoded from
\* its key's active slot.
C1_CacheFileCoherence ==
    /\ (kind = "identity" /\ ~closed)
         => IdCoherent(file, recordSize, heap, dataCache)
    /\ (kind = "join" /\ ~closed)
         => JoinCoherent(file, recordSize, dataCache)

\* The relationship manager alone keeps C1.
C1_JoinCoherence ==
    (kind = "join" /\ ~closed) => JoinCoherent(file, recordSize, dataCache)

(* -------------------------------- C2 ---------------------------------- *)
\* C2: when Create of the identity manager succeeds, Read of the minted id
\* succeeds at once with the created item (the one written to the file, with
\* the minted id and the creation timestamp), and Count is one more than
\* before the call.
C2_CreateThenRead ==
    [][\A id \in 1..MaxId :
          (/\ kind = "identity"
           /\ last'.op = "Create" /\ last'.err = "nil" /\ last'.key = id)
          => /\ IdReadResult(id)'.err = "nil"
             /\ IdReadResult(id)'.item = IdSlotItem(file', recordSize, last'.off)
             /\ IdReadResult(id)'.item.ID = id
             /\ IdReadResult(id)'.item.CreatedAt = Now
             /\ CountResult' = CountResult + 1]_vars

\* A Create that succeeded on a named item while another record was cached.
C2_Witness ==
    /\ kind = "identity"
    /\ last.op = "Create" /\ last.err = "nil"
    /\ IdReadResult(last.key).err = "nil"
    /\ IdReadResult(last.key).item.Name # <<>>
    /\ CountResult = 2

(* -------------------------------- C3 ---------------------------------- *)
\* C3: when Delete succeeds, Read of that key reports not-found, Count is one
\* less than before, the status byte of the slot that held the record is
\* StatusDeleted, and every other byte of the file is as it was.
DeletedInPlace(f, g, off) ==
    /\ Len(g) = Len(f)
    /\ g[off + 1] = StatusDeleted
    /\ \A i \in 1..Len(f) : i # off + 1 => g[i] = f[i]

C3_DeleteEffect ==
    [][/\ \A id \in 0..MaxId :
            (/\ kind = "identity"
             /\ last'.op = "Delete" /\ last'.err = "nil" /\ last'.key = id)
            => /\ IdReadResult(id)'.err = "not found"
               /\ CountResult' = CountResult - 1
               /\ last'.off \in IdActive(file, recordSize)
               /\ IdSlotItem(file, recordSize, last'.off).ID = id
               /\ DeletedInPlace(file, file', last'.off)
       /\ \A key \in JoinKeys :
            (/\ kind = "join"
             /\ last'.op = "Delete" /\ last'.err = "nil" /\ last'.key = key)
            => /\ JoinReadResult(key)'.err = "not found"
               /\ CountResult' = CountResult - 1
               /\ last'.off \in JoinActive(file, recordSize)
               /\ GetCompositeKey(JoinSlotItem(file, recordSize, last'.off)) = key
               /\ DeletedInPlace(file, file', last'.off)]_vars

\* A Delete that succeeded on the first of two slots, the other still active.
C3_Witness ==
    /\ IsManager
    /\ last.op = "Delete" /\ last.err = "nil" /\ last.off = 0
    /\ file[1] = StatusDeleted
    /\ Len(file) = 2 * recordSize
    /\ file[recordSize + 1] = StatusActive
    /\ CountResult = 1

(* -------------------------------- C4 ---------------------------------- *)
\* The children a parent index lists under a parent (none when it has no entry).
ChildrenOf(pc, p) == IF p \in DOMAIN pc THEN Range(pc[p]) ELSE {}

\* C4 on the identity manager: closing a manager and opening a new one on the
\* same file yields a cache with the keys and values the first held at Close.
C4_IdReload ==
    (kind = "identity" /\ last.op = "New" /\ snap # NoSnap)
        => IdCacheValues(heap, dataCache) = snap.data

\* C4 on the relationship manager: same keys and values, and per parent the
\* same set of children.
C4_JoinReload ==
    (kind = "join" /\ last.op = "New" /\ snap # NoSnap)
        => /\ dataCache = snap.data
           /\ \A p \in 1..MaxParent :
                ChildrenOf(parentCache, p) = ChildrenOf(snap.parent, p)

\* C4: closing a manager and constructing a new one on the same file yields a
\* cache with exactly the same keys and values as the first manager held at
\* the time of Close, and for the relationship manager a parent index that
\* lists, per parent, the same set of children.
C4_ReloadIdempotent == C4_IdReload /\ C4_JoinReload

(* -------------------------------- C5 ---------------------------------- *)
\* The records of the primary cache whose key has parent p.
CachedChildren(dc, p) == {dc[k] : k \in {x \in DOMAIN dc : ParentOf(x) = p}}

\* C5: GetByParentID(p) returns exactly the relationship records of the
\* primary cache whose key's parent component is p, each once; so after one
\* child is deleted its siblings are still returned.
C5_ParentIndexConsistent ==
    (kind = "join" /\ ~closed)
        => \A p \in 1..MaxParent :
             /\ Range(GetByParentIDResult(p).items) = CachedChildren(dataCache, p)
             /\ Len(GetByParentIDResult(p).items)
                  = Cardinality(CachedChildren(dataCache, p))

\* The same, read on keys only: the keys GetByParentID(p) returns are the
\* keys of the primary cache with parent p, each once.
C5_ParentIndexKeys ==
    (kind = "join" /\ ~closed)
        => \A p \in 1..MaxParent :
             /\ {GetCompositeKey(v) : v \in Range(GetByParentIDResult(p).items)}
                  = {k \in DOMAIN dataCache : ParentOf(k) = p}
             /\ Len(GetByParentIDResult(p).items)
                  = Cardinality({k \in DOMAIN dataCache : ParentOf(k) = p})

(* -------------------------------- C6 ---------------------------------- *)
\* The payloads of at most n bytes, zero bytes included.
PayloadsUpTo(n) == SeqsOf({0, 1}, 0, n)

\* The capacity boundary of the FileHandler, at the file as it stands: a
\* payload of at most recordSize - 1 bytes is written and updated, a payload
\* of recordSize bytes or more is refused and nothing is written.
C6_FileBoundary ==
    \A data \in PayloadsUpTo(recordSize + 1) :
        /\ WriteRecord(file, recordSize, data, TRUE).err
             = (IF Len(data) <= recordSize - 1 THEN "nil" ELSE "capacity")
        /\ Len(data) >= recordSize
             => WriteRecord(file, recordSize, data, TRUE).file = file
        /\ \A o \in SlotOffsets(file, recordSize) :
             /\ UpdateRecord(file, recordSize, o, data, TRUE).err
                  = (IF Len(data) <= recordSize - 1 THEN "nil" ELSE "capacity")
             /\ Len(data) >= recordSize
                  => UpdateRecord(file, recordSize, o, data, TRUE).file = file

\* The cache as a map from keys to values.
CacheValues ==
    IF kind = "identity" THEN IdCacheValues(heap, dataCache) ELSE dataCache

\* A manager Create or Update refused for capacity leaves file and cache as
\* they were.
C6_ManagerStep ==
    (/\ IsManager
     /\ last'.op \in {"Create", "Update"}
     /\ last'.err = "capacity")
    => /\ file' = file
       /\ CacheValues' = CacheValues

\* C6: writing or updating a payload of exactly recordSize - 1 bytes
\* succeeds; a payload of recordSize bytes or more fails with a capacity error
\* and nothing is written; and a manager Create or Update whose serialized
\* item exceeds the capacity fails leaving the cache unchanged.
C6_CapacityBoundary == []C6_FileBoundary /\ [][C6_ManagerStep]_vars

\* The manager part of C6 alone.
C6_ManagerPart == [][C6_ManagerStep]_vars

(* -------------------------------- C7 ---------------------------------- *)
\* The payloads C7 speaks of: 1 to recordSize - 1 bytes, none of them zero.
NoZeroPayloads == SeqsOf({1, 2}, 1, recordSize - 1)

\* C7: a payload of 1 to recordSize - 1 bytes holding no zero byte is read
\* back byte for byte from the offset WriteRecord returned, a payload of
\* exactly recordSize - 1 bytes included; and a manager opened on the file
\* holds, for every active record, the value decoded from its slot.
C7_RoundTrip ==
    /\ \A data \in NoZeroPayloads :
         LET w == WriteRecord(file, recordSize, data, TRUE)
         IN  /\ w.err = "nil"
             /\ ReadRecord(w.file, recordSize, w.offset)
                  = [err |-> "nil", data |-> data]
    /\ (kind = "identity" /\ last.op = "New")
         => \A o \in IdActive(file, recordSize) :
              /\ IdSlotItem(file, recordSize, o).ID \in DOMAIN dataCache
              /\ heap[dataCache[IdSlotItem(file, recordSize, o).ID]]
                   = IdSlotItem(file, recordSize, o)
    /\ (kind = "join" /\ last.op = "New")
         => \A o \in JoinActive(file, recordSize) :
              /\ GetCompositeKey(JoinSlotItem(file, recordSize, o))
                   \in DOMAIN dataCache
              /\ dataCache[GetCompositeKey(JoinSlotItem(file, recordSize, o))]
                   = JoinSlotItem(file, recordSize, o)

\* A manager reopened on a file whose first slot is active and filled to the
\* last byte, the record present in the cache.
C7_Witness ==
    /\ IsManager
    /\ last.op = "New"
    /\ Len(file) >= recordSize
    /\ file[1] = StatusActive
    /\ \A i \in 2..recordSize : file[i] # 0
    /\ CountResult >= 1
    /\ ReadRecord(file, recordSize, 0).err = "nil"
    /\ Len(ReadRecord(file, recordSize, 0).data) = recordSize - 1

(* -------------------------------- C8 ---------------------------------- *)
\* C8: when a manager call fails in its file operation or in relocating the
\* record, the call returns an error and the primary cache and the parent
\* index are exactly as they were before the call.
C8_FailBeforeCacheWrite ==
    [][(/\ IsManager
        /\ last'.op \in {"Create", "Clone", "Update", "Delete"}
        /\ last'.err \in {"capacity", "io", "not in file"})
       => /\ CacheValues' = CacheValues
          /\ parentCache' = parentCache]_vars

\* C8 on the relationship manager alone.
C8_JoinPart ==
    [][(/\ kind = "join"
        /\ last'.op \in {"Create", "Clone", "Update", "Delete"}
        /\ last'.err \in {"capacity", "io", "not in file"})
       => /\ dataCache' = dataCache
          /\ parentCache' = parentCache]_vars

(* -------------------------------- C9 ---------------------------------- *)
\* The threads inside the critical section of a mutating call (the load scan
\* of New included), and those inside the critical section of a read.
WritersInside == {t \in Threads : pcs[t].at \in {"locked", "written", "cached"}}
ReadersInside == {t \in Threads : pcs[t].at = "rlocked"}

\* No read executes between the file operation and the cache update of a
\* mutating call.
C9_NoReaderBetween ==
    (\E t \in Threads : pcs[t].at = "written") => ReadersInside = {}

\* What a reader finds: the cache of the open manager is the projection of
\* the file's active records.
C9_ReaderSeesProjection ==
    (ReadersInside # {} /\ ~closed)
        => IF kind = "identity"
           THEN IdCoherent(file, recordSize, heap, dataCache)
           ELSE JoinCoherent(file, recordSize, dataCache)

\* C9: with threads calling one manager in any interleaving, no Read,
\* ReadAll, Count or GetByParentID executes between the file write and the
\* cache update of a Create, Update or Delete, and every reader observes a
\* state in which the cache equals the projection of the file's active
\* records.
C9_AtomicVisibility == C9_NoReaderBetween /\ C9_ReaderSeesProjection

\* The second half of C9 on the relationship manager alone.
C9_JoinReaderSeesProjection == kind = "join" => C9_ReaderSeesProjection

(* -------------------------------- C10 --------------------------------- *)
\* C10: at most one mutating call (Create, Update, Delete, Clone, Close, the
\* load scan) is inside a manager's critical section at any time, and no read
\* is inside it while a mutating call is.
C10_MutualExclusion ==
    /\ Cardinality(WritersInside) <= 1
    /\ WritersInside # {} => ReadersInside = {}

\* A mutating call stands between its file write and its cache update, the
\* file already changed, after another call has returned.
C10_Witness ==
    /\ \E t \in Threads :
         /\ pcs[t].at = "written"
         /\ pend[t].err = "nil"
         /\ mu.w = {t}
    /\ last.op \in {"Create", "Update", "Delete", "Clone"}
    /\ calls >= 2

(* -------------------------------- C11 --------------------------------- *)
\* The threads holding a mutex.
Holders(m) == m.w \cup m.r

\* The FileHandler's lock is taken inside the manager's lock, never the other
\* way round: who holds h.mu holds m.mu for writing, and who waits for m.mu
\* holds nothing.
C11_LockOrder ==
    /\ \A t \in Holders(fhmu) : t \in mu.w
    /\ \A t \in Threads :
         pcs[t].at \in {"call", "start"}
             => t \notin Holders(mu) \cup Holders(fhmu)

\* A thread that has returned holds neither lock.
C11_ReturnedHoldsNothing ==
    \A t \in Threads :
        pcs[t].at = "idle" => t \notin Holders(mu) \cup Holders(fhmu)

\* Under fair scheduling every call returns.
C11_EveryCallReturns ==
    \A t \in Threads : (pcs[t].at # "idle") ~> (pcs[t].at = "idle")

\* C11: every code path takes the manager lock before the FileHandler lock
\* and never the reverse, so no interleaving of concurrent calls on one
\* manager deadlocks; under fair scheduling every call that was made
\* eventually returns, with both locks released.
C11_LockOrderAndProgress ==
    /\ []C11_LockOrder
    /\ []C11_ReturnedHoldsNothing
    /\ C11_EveryCallReturns

\* One thread is inside WriteRecord holding both locks while the other has
\* called the manager and waits for m.mu.
C11_Witness ==
    \E t, u \in Threads :
        /\ pcs[t].at = "fhlocked"
        /\ t \in mu.w /\ t \in fhmu.w
        /\ pcs[u].at = "call"

(* -------------------------------- C12 --------------------------------- *)
\* What Read returns on the manager for every key it can be given.
ReadErrs ==
    IF kind = "identity"
    THEN {IdReadResult(id).err : id \in 0..MaxId}
    ELSE {JoinReadResult(key).err : key \in JoinKeys}

\* C12: after Close, every further operation on the manager (Create, Read,
\* Update, Delete) fails with the "manager is closed" error.
C12_ClosedManagerFails ==
    (IsManager /\ closed) =>
        /\ last.op \in {"Create", "Clone", "Update", "Delete"}
               => last.err = "closed"
        /\ ReadErrs = {"closed"}

(* -------------------------------- C13 --------------------------------- *)
\* g is f with exactly one slot appended, and that slot is active.
OneActiveSlotAppended(f, g, rs) ==
    /\ Len(g) = Len(f) + rs
    /\ SubSeq(g, 1, Len(f)) = f
    /\ g[Len(f) + 1] = StatusActive

\* pc2 is pc with item appended to the list of parent p, nothing else.
ListedUnderParent(pc, pc2, p, item) ==
    /\ DOMAIN pc2 = DOMAIN pc \cup {p}
    /\ pc2[p] = (IF p \in DOMAIN pc THEN pc[p] ELSE <<>>) \o <<item>>
    /\ \A q \in DOMAIN pc : q # p => pc2[q] = pc[q]

\* C13: in the relationship manager Create(item) and Clone(item) with a
\* composite key already in the cache fail with the already-exists error,
\* append no slot and leave the primary cache and the parent index as they
\* were; with a key not in the cache a call that succeeds appends exactly one
\* active slot and adds the item to the primary cache and to the list of its
\* parent, and only a failed write can make it fail.
C13_CreateCloneDuplicates ==
    [][(kind = "join" /\ ~closed /\ last'.op \in {"Create", "Clone"}) =>
         LET key == last'.key
         IN  IF key \in DOMAIN dataCache
             THEN /\ last'.err = "exists"
                  /\ file' = file
                  /\ dataCache' = dataCache
                  /\ parentCache' = parentCache
             ELSE /\ last'.err \in {"nil", "capacity", "io"}
                  /\ last'.err = "nil" =>
                       /\ OneActiveSlotAppended(file, file', recordSize)
                       /\ last'.off = Len(file)
                       /\ DOMAIN dataCache' = DOMAIN dataCache \cup {key}
                       /\ GetCompositeKey(dataCache'[key]) = key
                       /\ \A k \in DOMAIN dataCache :
                            dataCache'[k] = dataCache[k]
                       /\ ListedUnderParent(parentCache, parentCache',
                                            ParentOf(key), dataCache'[key])
                  /\ last'.err # "nil" =>
                       /\ file' = file
                       /\ dataCache' = dataCache
                       /\ parentCache' = parentCache]_vars

\* A Clone of a key that an earlier call put in the cache was refused.
C13_Witness ==
    /\ kind = "join" /\ ~closed
    /\ last.op = "Clone" /\ last.err = "exists"
    /\ last.key \in DOMAIN dataCache
    /\ Len(file) = recordSize
    /\ ParentOf(last.key) \in DOMAIN parentCache

(* -------------------------------- C14 --------------------------------- *)
\* The parents that have a record in the primary cache, and in the file.
ParentsInCache == {ParentOf(k) : k \in DOMAIN dataCache}
ParentsInFile ==
    {ParentOf(GetCompositeKey(JoinSlotItem(file, recordSize, o))) :
        o \in JoinActive(file, recordSize)}

LoadIdItems == [ID : 1..2, Name : SeqsOf(NameChars, 0, 1),
                CreatedAt : {Now}, UpdatedAt : {0}]
LoadJoinItems == [AlbumID : 1..2, PhotoID : {1}, Name : SeqsOf(NameChars, 0, 1)]

Tombstoned(slot) == [slot EXCEPT ![1] = StatusDeleted]

LoadSlots(k, rs) ==
    LET active == IF k = "identity"
                  THEN {RecordBuffer(rs, MarshalId(v)) : v \in LoadIdItems}
                  ELSE {RecordBuffer(rs, MarshalJoin(v)) : v \in LoadJoinItems}
        one == CHOOSE slot \in active : TRUE
    IN  active
        \cup {Tombstoned(one)}
        \cup {[i \in 1..rs |-> 0]}
        \cup {[i \in 1..rs |-> IF i = 2 THEN 2 ELSE 0]}

\* A slot the file ends in the middle of. The cut falls in the zero padding;
\* a record cut inside its payload is JSON that no longer decodes, which the
\* cut slot of undecodable payload stands for.
LoadTails(k, rs) ==
    {<<>>} \cup
    UNION {{SubSeq(slot, 1, n) :
               n \in {m \in 1..(rs - 1) : \A j \in (m + 1)..rs : slot[j] = 0}} :
           slot \in LoadSlots(k, rs)}

Flatten(slots, rs) ==
    [i \in 1..(Len(slots) * rs) |-> slots[((i - 1) \div rs) + 1][((i - 1) % rs) + 1]]

LoadFiles(k, rs) ==
    {Flatten(slots, rs) \o tail :
        slots \in SeqsOf(LoadSlots(k, rs), 0, MaxLoadSlots),
        tail \in LoadTails(k, rs)}

InitLoad ==
    /\ kind \in {"identity", "join"}
    /\ recordSize = (IF kind = "identity" THEN IdRecordSize ELSE JoinRecordSize)
    /\ file \in LoadFiles(kind, recordSize)
    /\ fhOpen = FALSE
    /\ heap = EmptyMap
    /\ dataCache = EmptyMap
    /\ parentCache = EmptyMap
    /\ closed = TRUE
    /\ nextId = 1
    /\ snap = NoSnap
    /\ last = NoCall
    /\ pcs = [t \in Threads |-> Idle]
    /\ mu = MuFree
    /\ pend = [t \in Threads |-> NoPend]
    /\ calls = 0
    /\ fhmu = MuFree
    /\ backing = NoBacking
    /\ router = NoRouter
    /\ routes = EmptyMap
    /\ ctx = NoContext

NextLoad == IdNew \/ JoinNew

SpecLoad == InitLoad /\ [][NextLoad]_vars

\* The slots of the file that are active and decode, their keys and records.
LoadedSlots ==
    IF kind = "identity" THEN IdActive(file, recordSize)
    ELSE JoinActive(file, recordSize)
SlotRecord(o) ==
    IF kind = "identity" THEN IdSlotItem(file, recordSize, o)
    ELSE JoinSlotItem(file, recordSize, o)
SlotKey(o) ==
    IF kind = "identity" THEN SlotRecord(o).ID ELSE GetCompositeKey(SlotRecord(o))

\* C15 as stated: for any file contents, opening a manager skips every slot
\* that is tombstoned, empty, truncated or undecodable without failing, and
\* the cache holds exactly the records of the active and decodable slots.
C15_LoadExactlyActive ==
    (IsManager /\ last.op = "New") =>
        /\ ~closed
        /\ {CacheValues[k] : k \in DOMAIN CacheValues}
             = {SlotRecord(o) : o \in LoadedSlots}

\* C15, amended: the cache holds, for each key that an active and decodable
\* slot carries, the record of the last such slot, and nothing else; bad
\* slots before or between them change nothing and do not fail the opening.
C15_LoadLastActive ==
    (IsManager /\ last.op = "New") =>
        /\ ~closed
        /\ DOMAIN CacheValues = {SlotKey(o) : o \in LoadedSlots}
        /\ \A o \in LoadedSlots :
             (\A q \in LoadedSlots : SlotKey(q) = SlotKey(o) => q <= o)
                 => CacheValues[SlotKey(o)] = SlotRecord(o)

\* A manager opened on a file whose first slot is bad and whose two later
\* slots are active records of one key: the cache holds the later one.
C15_Witness ==
    /\ IsManager /\ last.op = "New"
    /\ Len(file) > 3 * recordSize
    /\ 0 \notin LoadedSlots
    /\ {recordSize, 2 * recordSize} \subseteq LoadedSlots
    /\ SlotKey(recordSize) = SlotKey(2 * recordSize)
    /\ SlotRecord(recordSize) # SlotRecord(2 * recordSize)
    /\ CacheValues[SlotKey(recordSize)] = SlotRecord(2 * recordSize)

(* -------------------------------- C16 --------------------------------- *)
\* What Read(key) returns on the manager.
ReadResult(key) ==
    IF kind = "identity" THEN IdReadResult(key) ELSE JoinReadResult(key)

\* The active and decodable slots of the manager's file f and their records.
ActiveSlots(f) ==
    IF kind = "identity" THEN IdActive(f, recordSize)
    ELSE JoinActive(f, recordSize)
RecordAt(f, o) ==
    IF kind = "identity" THEN IdSlotItem(f, recordSize, o)
    ELSE JoinSlotItem(f, recordSize, o)
KeyOf(v) == IF kind = "identity" THEN v.ID ELSE GetCompositeKey(v)

\* g is f with at most the slot at off rewritten.
OnlySlotDiffers(f, g, off) ==
    /\ Len(g) = Len(f)
    /\ \A i \in 1..Len(f) :
         (i <= off \/ i > off + recordSize) => g[i] = f[i]

\* An Update of a key of the cache that succeeds rewrites the record's slot
\* where it is and replaces the cache entry: Read returns the item now in
\* the slot, Count and the file length are as before, no other slot differs.
C16_UpdatePresent ==
    \A key \in DOMAIN dataCache :
        (IsManager /\ last'.op = "Update" /\ last'.key = key)
            => /\ last'.err \in {"nil", "capacity", "io"}
               /\ last'.err = "nil" =>
                    /\ last'.off \in ActiveSlots(file)
                    /\ KeyOf(RecordAt(file, last'.off)) = key
                    /\ OnlySlotDiffers(file, file', last'.off)
                    /\ last'.off \in ActiveSlots(file')
                    /\ ReadResult(key)'.err = "nil"
                    /\ ReadResult(key)'.item = RecordAt(file', last'.off)
                    /\ KeyOf(ReadResult(key)'.item) = key
                    /\ DOMAIN dataCache' = DOMAIN dataCache

\* An Update of a key that is not in the cache fails with the not-found
\* error and leaves cache and file as they were.
C16_UpdateAbsent ==
    (/\ IsManager /\ last'.op = "Update"
     /\ last'.key \notin DOMAIN dataCache)
        => /\ last'.err = "not exist"
           /\ file' = file
           /\ CacheValues' = CacheValues

\* C16: Update(item) for an identifier present in the cache rewrites that
\* record's slot at its existing offset and replaces the cache entry, so
\* that Read(id) returns the new item while Count() and the file length are
\* unchanged and no other slot differs; Update(item) for an identifier absent
\* from the cache fails with a not-found error and leaves cache and file
\* unchanged.
C16_UpdateEffect == [][C16_UpdatePresent /\ C16_UpdateAbsent]_vars

\* What holds of it: the part on a key of the cache, in both managers, and
\* the part on an absent key in the relationship manager.
C16_PresentPart == [][C16_UpdatePresent]_vars
C16_JoinAbsentPart == [][kind = "join" => C16_UpdateAbsent]_vars

(* -------------------------------- C17 --------------------------------- *)
\* The slots of f whose status byte is Deleted.
Tombstones(f) ==
    {o \in SlotOffsets(f, recordSize) : f[o + 1] = StatusDeleted}

\* C17: through the operations of a manager, a slot whose status byte is
\* Deleted stays Deleted, the file never gets shorter, every Create that
\* succeeds (also of a key deleted earlier) appends its slot at end-of-file
\* and reuses no tombstoned slot, and an Update or Delete that succeeds
\* works on the active slot of its key, never on a tombstone.
C17_TombstonesStay ==
    [][IsManager =>
         /\ Tombstones(file) \subseteq Tombstones(file')
         /\ Len(file') >= Len(file)
         /\ (last'.op \in {"Create", "Clone"} /\ last'.err = "nil")
              => /\ last'.off = Len(file)
                 /\ Len(file') = Len(file) + recordSize
                 /\ SubSeq(file', 1, Len(file)) = file
         /\ (last'.op \in {"Update", "Delete"} /\ last'.err = "nil")
              => /\ last'.off \in ActiveSlots(file)
                 /\ last'.off \notin Tombstones(file)
                 /\ KeyOf(RecordAt(file, last'.off)) = last'.key]_vars

\* A key was created, deleted and created again, and then updated: the
\* update wrote to the second slot, the first is still the tombstone of the
\* same key.
C17_Witness ==
    /\ kind = "join"
    /\ last.op = "Update" /\ last.err = "nil"
    /\ last.off = recordSize
    /\ 0 \in Tombstones(file)
    /\ <<file[2], file[3]>> = last.key
    /\ recordSize \in ActiveSlots(file)

(* -------------------------------- C18 --------------------------------- *)
\* No two active slots of an identity file carry one identifier.
DistinctActiveIds(f) ==
    \A o, q \in IdActive(f, recordSize) :
        IdSlotItem(f, recordSize, o).ID = IdSlotItem(f, recordSize, q).ID
            => o = q

C19_MintedIdCarried ==
    \A id \in 1..MaxId :
        (/\ kind = "identity"
         /\ last'.op = "Create" /\ last'.err = "nil" /\ last'.key = id)
            => /\ id = nextId
               /\ IdReadResult(id)'.err = "nil"
               /\ IdReadResult(id)'.item.ID = id
               /\ last'.off \in IdActive(file', recordSize)
               /\ IdSlotItem(file', recordSize, last'.off).ID = id

\* After a Create that succeeds no other identifier reads the created
\* record.
C19_OnlyUnderMinted ==
    \A id \in 1..MaxId :
        (/\ kind = "identity"
         /\ last'.op = "Create" /\ last'.err = "nil" /\ last'.key = id)
            => \A k \in 0..MaxId :
                 k # id => \/ IdReadResult(k)'.err # "nil"
                           \/ IdReadResult(k)'.item.ID # id

\* C19: the identifier of a created record is assigned by the identity
\* manager and never by the caller: the item returned, cached and written to
\* the file carries the identifier Create minted, and the record is readable
\* only under that identifier.
C19_IdAssignedByManager ==
    [][C19_MintedIdCarried /\ C19_OnlyUnderMinted]_vars

\* What holds of it: the minted identifier is the one returned, cached and
\* written.
C19_CarriedPart == [][C19_MintedIdCarried]_vars

(* -------------------------------- C20 --------------------------------- *)
\* g is f with one slot appended that holds data: status Active, the data,
\* zero bytes up to the slot width.
SlotAppended(f, g, rs, data) ==
    /\ Len(g) = Len(f) + rs
    /\ \A i \in 1..Len(f) : g[i] = f[i]
    /\ g[Len(f) + 1] = StatusActive
    /\ \A i \in 1..(rs - recordStatusSize) :
         g[Len(f) + recordStatusSize + i]
             = (IF i <= Len(data) THEN data[i] ELSE 0)

\* WriteRecord on the file as it stands, for every payload that fits.
C20_WriteAppends ==
    \A data \in PayloadsUpTo(recordSize - recordStatusSize) :
        LET w == WriteRecord(file, recordSize, data, TRUE)
        IN  /\ w.err = "nil"
            /\ w.offset = Len(file)
            /\ SlotAppended(file, w.file, recordSize, data)

\* In every state reached through manager operations the file length and
\* the offset the last call worked at are multiples of recordSize.
C20_Aligned ==
    IsManager =>
        /\ Len(file) % recordSize = 0
        /\ last.off # -1 => (last.off % recordSize = 0 /\ last.off < Len(file))

\* A call that wrote a record grew the file by one slot at its end.
C20_WriteStep ==
    (/\ last'.err = "nil"
     /\ \/ last'.op = "WriteRecord"
        \/ IsManager /\ last'.op \in {"Create", "Clone"})
        => /\ last'.off = Len(file)
           /\ Len(file') = Len(file) + recordSize
           /\ SubSeq(file', 1, Len(file)) = file
           /\ file'[Len(file) + 1] = StatusActive

\* C20: WriteRecord appends: on success the offset returned is the file
\* length before the call, the file grows by exactly recordSize, the new slot
\* is the status Active, the payload and zero padding, and no byte of an
\* earlier slot changes; hence in every state reached through manager
\* operations the file length and every offset returned are multiples of
\* recordSize.
C20_WriteRecordAppends ==
    /\ []C20_WriteAppends
    /\ []C20_Aligned
    /\ [][C20_WriteStep]_vars

\* The FileHandler has appended a second slot whose payload is shorter than
\* the slot, so that the slot ends in padding.
C20_Witness ==
    /\ kind = "file"
    /\ last.op = "WriteRecord" /\ last.err = "nil"
    /\ last.off = recordSize
    /\ Len(file) = 2 * recordSize
    /\ file[recordSize + 2] = 1
    /\ file[2 * recordSize] = 0

(* -------------------------------- C21 --------------------------------- *)
\* The offsets of the slots that lie wholly within f.
WholeSlots(f) == {o \in SlotOffsets(f, recordSize) : o + recordSize <= Len(f)}

\* C21: UpdateRecord(offset, payload) rewrites the whole slot in place:
\* ReadRecord(offset) then returns exactly the new payload, also when the
\* slot held a longer payload before, the slot is where it was, and the file
\* length and every other slot are unchanged.
C21_UpdateInPlace ==
    \A o \in WholeSlots(file), data \in NoZeroPayloads :
        LET u == UpdateRecord(file, recordSize, o, data, TRUE)
        IN  /\ u.err = "nil"
            /\ ReadRecord(u.file, recordSize, o) = [err |-> "nil", data |-> data]
            /\ OnlySlotDiffers(file, u.file, o)
            /\ \A i \in (Len(data) + 2)..recordSize : u.file[o + i] = 0

\* The FileHandler has rewritten its first slot with a payload of one byte;
\* its second slot is filled to the last byte.
C21_Witness ==
    /\ kind = "file"
    /\ last.op = "UpdateRecord" /\ last.err = "nil" /\ last.off = 0
    /\ Len(file) = 2 * recordSize
    /\ ReadRecord(file, recordSize, 0) = [err |-> "nil", data |-> <<1>>]
    /\ Len(ReadRecord(file, recordSize, recordSize).data) = recordSize - 1

(* -------------------------------- C22 --------------------------------- *)
\* The four cases C22 names: the offset is negative, nothing is read at it,
\* the slot is tombstoned, the first payload byte is zero.
NamedReadFailure(offset) ==
    \/ offset < 0
    \/ offset >= Len(file)
    \/ file[offset + 1] = StatusDeleted
    \/ offset + recordStatusSize + 1 > Len(file)
    \/ file[offset + recordStatusSize + 1] = 0

\* C22 as stated: ReadRecord(offset) returns an error and no payload when
\* the offset is negative, when it is at or past end-of-file, when the status
\* byte is Deleted and when the first payload byte is zero; in every other
\* case it returns a payload.
C22_ReadErrorCases ==
    \A offset \in Offsets :
        /\ NamedReadFailure(offset)
             => /\ FhReadResult(offset).err # "nil"
                /\ FhReadResult(offset).data = <<>>
        /\ ~NamedReadFailure(offset)
             => /\ FhReadResult(offset).err = "nil"
                /\ FhReadResult(offset).data # <<>>

\* C22, amended: the read of the file failing (a closed handle) is a fifth
\* case of error; in every other case ReadRecord returns a payload.
C22_ReadErrorCasesOrIo ==
    \A offset \in Offsets :
        /\ (NamedReadFailure(offset) \/ ~fhOpen)
             => /\ FhReadResult(offset).err # "nil"
                /\ FhReadResult(offset).data = <<>>
        /\ ~(NamedReadFailure(offset) \/ ~fhOpen)
             => /\ FhReadResult(offset).err = "nil"
                /\ FhReadResult(offset).data # <<>>

\* An open file whose first slot is tombstoned and whose second slot holds a
\* payload: reading the first fails, reading the second returns the payload,
\* reading at end-of-file and at a negative offset fails.
C22_Witness ==
    /\ kind = "file" /\ fhOpen
    /\ Len(file) = 2 * recordSize
    /\ file[1] = StatusDeleted /\ file[2] # 0
    /\ FhReadResult(0).err = "deleted"
    /\ FhReadResult(recordSize).err = "nil"
    /\ FhReadResult(Len(file)).err = "no data"
    /\ FhReadResult(-recordSize).err = "invalid offset"

(* -------------------------------- C23 --------------------------------- *)
\* p is the payload area of a slot cut before its first zero byte, or the
\* whole area when it holds no zero byte.
CutAtFirstZero(p, area) ==
    /\ Len(p) <= Len(area)
    /\ \A i \in 1..Len(p) : p[i] = area[i] /\ p[i] # 0
    /\ Len(p) < Len(area) => area[Len(p) + 1] = 0

\* The payload area of the whole slot at offset o of f.
PayloadArea(f, o) == SubSeq(f, o + recordStatusSize + 1, o + recordSize)

\* C23: for an active slot ReadRecord returns the bytes after the status
\* byte up to but excluding the first zero byte, or all recordSize - 1 bytes
\* when the slot holds no zero byte; so a payload written with a zero byte at
\* position j > 0 is read back as its first j bytes only.
C23_LengthRecovery ==
    /\ \A o \in WholeSlots(file) :
         ReadRecord(file, recordSize, o).err = "nil"
             => CutAtFirstZero(ReadRecord(file, recordSize, o).data,
                               PayloadArea(file, o))
    /\ \A data \in PayloadsUpTo(recordSize - recordStatusSize) :
         LET w == WriteRecord(file, recordSize, data, TRUE)
             r == ReadRecord(w.file, recordSize, w.offset)
             zeros == {j \in 1..Len(data) : data[j] = 0}
         IN  /\ (zeros = {} /\ data # <<>>)
                  => r = [err |-> "nil", data |-> data]
             /\ \A j \in zeros :
                  ((\A i \in zeros : j <= i) /\ j > 1)
                      => r = [err |-> "nil", data |-> SubSeq(data, 1, j - 1)]

\* The FileHandler wrote a payload with a zero byte in its middle: the slot
\* still holds the byte after the zero, ReadRecord returns the byte before.
C23_Witness ==
    /\ kind = "file"
    /\ last.op = "WriteRecord" /\ last.err = "nil"
    /\ PayloadArea(file, last.off) = <<1, 0, 1>>
    /\ ReadRecord(file, recordSize, last.off) = [err |-> "nil", data |-> <<1>>]

(* -------------------------------- C24 --------------------------------- *)
\* The active slots of the file whose decoded key is key.
SlotsOfKey(key) ==
    {o \in ActiveSlots(file) : KeyOf(RecordAt(file, o)) = key}

\* Manager.findRecordOffset(key) on the manager as it stands.
FindRecordOffset(key) ==
    IF kind = "identity" THEN IdFindRecordOffset(file, recordSize, key)
    ELSE JoinFindRecordOffset(file, recordSize, key)

\* For every key of the cache exactly one active slot decodes to it and
\* findRecordOffset returns the offset of that slot.
C24_OneSlotPerKey ==
    IsManager =>
        \A key \in DOMAIN dataCache :
            /\ Cardinality(SlotsOfKey(key)) = 1
            /\ FindRecordOffset(key).err = "nil"
            /\ FindRecordOffset(key).offset \in SlotsOfKey(key)

\* An Update or Delete never returns the relocation's not-found error.
C24_NoRelocationError ==
    (IsManager /\ last'.op \in {"Update", "Delete"}) => last'.err # "not in file"

\* C24: offset relocation always succeeds for cached keys: in every
\* reachable state each key of the cache has exactly one active slot in the
\* file whose decoded key equals it, findRecordOffset returns that slot's
\* offset, and so an Update or Delete of a cached key never fails with the
\* relocation's not-found error.
C24_RelocationSucceeds ==
    /\ []C24_OneSlotPerKey
    /\ [][C24_NoRelocationError]_vars

\* An Update relocated the second of two records of the identity manager.
C24_Witness ==
    /\ kind = "identity"
    /\ last.op = "Update" /\ last.err = "nil"
    /\ last.off = recordSize
    /\ Cardinality(DOMAIN dataCache) = 2
    /\ FindRecordOffset(last.key).offset = recordSize

(* -------------------------------- C25 --------------------------------- *)
\* Thread t takes a step of a call of Read, ReadAll, Count or GetByParentID.
ReaderMoves(t) ==
    /\ pcs'[t] # pcs[t]
    /\ pcs[t].op \in ReadOps \/ pcs'[t].op \in ReadOps

\* No step of a read call changes the file, the primary cache, the cached
\* objects or the parent index, and a read call is never inside the
\* FileHandler.
C25_ReadFrame ==
    \A t \in Threads :
        ReaderMoves(t) =>
            /\ file' = file /\ fhOpen' = fhOpen
            /\ dataCache' = dataCache /\ heap' = heap
            /\ parentCache' = parentCache
            /\ t \notin Holders(fhmu) \cup Holders(fhmu')
            /\ pcs'[t].at \in {"call", "rlocked", "idle"}

\* ReadAll returns the value of every cache entry exactly once, in whatever
\* order the map is visited.
C25_ReadAllOnce ==
    \A order \in ReadAllOrders :
        LET items == ReadAllResult(order)
        IN  /\ Len(items) = CountResult
            /\ \A k \in DOMAIN dataCache :
                 Cardinality({i \in 1..Len(items) : items[i] = dataCache[k]})
                   = Cardinality({x \in DOMAIN dataCache : dataCache[x] = dataCache[k]})

\* C25: Read, ReadAll, Count and GetByParentID are read-only: they never
\* read or write the file and leave the file contents, the primary cache and
\* the parent index unchanged whether they succeed or fail; ReadAll returns
\* every cached value exactly once.
C25_ReadOnly ==
    /\ [][C25_ReadFrame]_vars
    /\ []C25_ReadAllOnce

\* A thread is inside ReadAll under the read lock, the cache holds two
\* entries.
C25_Witness ==
    \E t \in Threads :
        /\ pcs[t] = [op |-> "ReadAll", at |-> "rlocked"]
        /\ t \in mu.r
        /\ Cardinality(DOMAIN dataCache) = 2

(* -------------------------------- C26 --------------------------------- *)
\* A Delete of a key that is not in the cache fails with the not-found error
\* and changes neither the file nor the caches.
C26_DeleteAbsent ==
    (/\ IsManager /\ last'.op = "Delete"
     /\ last'.key \notin DOMAIN dataCache)
        => /\ last'.err = "not found"
           /\ file' = file
           /\ CacheValues' = CacheValues
           /\ parentCache' = parentCache
           /\ CountResult' = CountResult

\* A Delete that succeeds takes its key out of the cache and Count drops by
\* one; a Delete of the same key right after it fails and Count stays.
C26_DeleteTwice ==
    /\ (IsManager /\ last'.op = "Delete" /\ last'.err = "nil")
         => /\ last'.key \in DOMAIN dataCache
            /\ last'.key \notin DOMAIN dataCache'
            /\ CountResult' = CountResult - 1
    /\ (/\ IsManager
        /\ last.op = "Delete" /\ last.err = "nil"
        /\ last'.op = "Delete" /\ last'.key = last.key)
         => /\ last'.err = "not found"
            /\ CountResult' = CountResult

\* C26: Delete(id) for an identifier absent from the cache fails with a
\* not-found error and changes neither the file nor the caches; the second
\* of two Delete calls for one identifier always fails, and Count() drops by
\* one only for the first.
C26_DeleteAbsentFails == [][C26_DeleteAbsent /\ C26_DeleteTwice]_vars

\* The second Delete of a key has failed: the key's slot is the tombstone the
\* first Delete left.
C26_Witness ==
    /\ kind = "join"
    /\ last.op = "Delete" /\ last.err = "not found"
    /\ 0 \in Tombstones(file)
    /\ <<file[2], file[3]>> = last.key
    /\ last.key \notin DOMAIN dataCache

(* -------------------------------- C27 --------------------------------- *)
\* C27: in the relationship manager, after an Update of an existing
\* composite key that succeeds, the entry for that key in the list
\* GetByParentID(parent) returns is the updated value, the one Read(key)
\* returns; the parent index never holds for a key a value that differs from
\* the primary cache's value for that key.
C27_ParentIndexFollowsUpdate ==
    (kind = "join" /\ ~closed) =>
        /\ \A p \in DOMAIN parentCache :
             \A i \in 1..Len(parentCache[p]) :
               LET key == GetCompositeKey(parentCache[p][i])
               IN  key \in DOMAIN dataCache
                     => parentCache[p][i] = JoinReadResult(key).item
        /\ (last.op = "Update" /\ last.err = "nil")
             => JoinReadResult(last.key).item
                  \in Range(GetByParentIDResult(ParentOf(last.key)).items)

(* -------------------------------- C28 --------------------------------- *)
\* C28: the list GetByParentID returned is a stable snapshot: a Delete or
\* Create of a child of the same parent that runs after GetByParentID has
\* returned changes neither the elements nor the length of the list the
\* earlier caller holds.
C28_ReturnedListStable ==
    [][(/\ kind = "join"
        /\ backing.held # NoHeld
        /\ backing'.held = backing.held
        /\ last'.op \in {"Create", "Clone", "Delete"})
           => HeldList' = HeldList]_vars

(* -------------------------------- C29 --------------------------------- *)
\* C29: key/value agreement in the identity manager: in every reachable
\* state every cache entry (k, v) satisfies v.GetID() = k, also when Create
\* was called twice with the same item object: the entry stored under the
\* first minted identifier still carries that first identifier.
C29_KeyValueAgreement ==
    kind = "identity" =>
        \A k \in DOMAIN dataCache : IdReadResult(k).item.ID = k

(* -------------------------------- C30 --------------------------------- *)
\* The file of a relationship manager holds at most one active slot for a
\* key, whatever the threads do.
C30_OneSlotPerKey ==
    kind = "join" => \A key \in JoinKeys : Cardinality(SlotsOfKey(key)) <= 1

\* Thread t's Create or Clone of key gets to its file operation: it fails
\* with already-exists and writes nothing when the file holds an active slot
\* for the key, as it does after another thread's Create of the key, and when
\* it succeeds the file had no such slot and now has exactly one.
C30_CreateDecides(t, key) ==
    (/\ pcs[t].op \in {"Create", "Clone"}
     /\ pcs[t].at = "locked" /\ pcs'[t].at = "written"
     /\ pend'[t].key = key)
        => /\ (SlotsOfKey(key) # {} /\ ~closed)
                => pend'[t].err = "exists" /\ file' = file
           /\ pend'[t].err = "nil"
                => /\ SlotsOfKey(key) = {}
                   /\ Cardinality(SlotsOfKey(key)') = 1
                   /\ Tombstones(file') = Tombstones(file)

\* Thread t's Delete of key gets to its file operation: it fails and writes
\* nothing when the file holds no active slot for the key, as after another
\* thread's Delete of the key, and when it succeeds the one active slot of
\* the key is the one slot tombstoned.
C30_DeleteDecides(t, key) ==
    (/\ pcs[t].op = "Delete"
     /\ pcs[t].at = "locked" /\ pcs'[t].at = "written"
     /\ pend'[t].key = key)
        => /\ SlotsOfKey(key) = {}
                => pend'[t].err \in {"not found", "closed"} /\ file' = file
           /\ pend'[t].err = "nil"
                => /\ Cardinality(SlotsOfKey(key)) = 1
                   /\ SlotsOfKey(key)' = {}
                   /\ Tombstones(file') = Tombstones(file) \cup SlotsOfKey(key)

\* Thread t returns from a Create, Clone or Delete of key that succeeded: the
\* file is as the call left it, one active slot for a created key and none
\* for a deleted one, and the cache agrees.
C30_ReturnsSettled(t, key) ==
    (/\ pcs[t].at = "cached" /\ pcs'[t] = Idle
     /\ pend[t].key = key /\ pend[t].err = "nil")
        => /\ pcs[t].op \in {"Create", "Clone"}
                => Cardinality(SlotsOfKey(key)) = 1 /\ key \in DOMAIN dataCache
           /\ pcs[t].op = "Delete"
                => SlotsOfKey(key) = {} /\ key \notin DOMAIN dataCache

C30_Step ==
    kind = "join" =>
        \A t \in Threads, key \in JoinKeys :
            /\ C30_CreateDecides(t, key)
            /\ C30_DeleteDecides(t, key)
            /\ C30_ReturnsSettled(t, key)

\* C30: concurrent operations on the same key of a relationship manager are
\* linearized: of two threads' Create (or Clone) of one key exactly one
\* succeeds and the other fails with already-exists, and the file holds
\* exactly one active slot for the key; of two threads' Delete of one
\* existing key exactly one succeeds and exactly one slot is tombstoned.
C30_SameKeyLinearized == []C30_OneSlotPerKey /\ [][C30_Step]_vars

\* A second thread's Create or Clone has failed with already-exists on the
\* key the Create that last returned has created, or a second Delete has
\* failed on the key the Delete that last returned has tombstoned.
C30_Witness ==
    /\ kind = "join"
    /\ last.err = "nil"
    /\ \E t \in Threads :
         /\ pcs[t].at = "written"
         /\ pend[t].key = last.key
         /\ \/ /\ last.op \in {"Create", "Clone"}
               /\ pcs[t].op \in {"Create", "Clone"}
               /\ pend[t].err = "exists"
               /\ Cardinality(SlotsOfKey(last.key)) = 1
            \/ /\ last.op = "Delete"
               /\ pcs[t].op = "Delete"
               /\ pend[t].err = "not found"
               /\ SlotsOfKey(last.key) = {}
               /\ Cardinality(Tombstones(file)) = 1

(* -------------------------------- C31 --------------------------------- *)
\* Thread t's Close gets past its check of m.closed: on a manager not yet
\* closed it marks the manager closed, discards the caches and goes on to
\* close the file handle; on a closed manager it returns no error and
\* leaves the manager, the file and the handle as they are.
C31_CloseBody(t) ==
    (pcs[t].op = "Close" /\ pcs[t].at = "locked" /\ pcs'[t].at # "locked")
        => IF closed
           THEN /\ pcs'[t].at = "cached"
                /\ pend'[t].err = "nil"
                /\ UNCHANGED <<closed, fhOpen, file, dataCache, parentCache>>
           ELSE /\ closed'
                /\ dataCache' = EmptyMap
                /\ parentCache' = EmptyMap
                /\ pcs'[t].at = "fhcall"

\* Thread t's Close closes the file handle: the handle was open, so it is
\* closed once and never again.
C31_HandleClosedOnce(t) ==
    (pcs[t].op = "Close" /\ pcs[t].at = "fhlocked" /\ pcs'[t].at # "fhlocked")
        => fhOpen /\ ~fhOpen'

\* Thread t returns from Close: without error, the manager closed, the caches
\* empty and the handle closed.
C31_CloseReturns(t) ==
    (pcs[t].op = "Close" /\ pcs[t].at = "cached" /\ pcs'[t] = Idle)
        => /\ last'.op = "Close" /\ last'.err = "nil"
           /\ closed' /\ ~fhOpen'
           /\ dataCache' = EmptyMap /\ parentCache' = EmptyMap

\* C31: Manager.Close gates the Slotted File's Close: the first Close marks
\* the manager closed, discards the caches and closes the file handle exactly
\* once; every later Close returns no error and does not close the file
\* handle again, also when two threads call Close concurrently.
C31_CloseGatesFileClose ==
    [][\A t \in Threads :
          /\ C31_CloseBody(t)
          /\ C31_HandleClosedOnce(t)
          /\ C31_CloseReturns(t)
          /\ closed => closed']_vars

\* A second Close, called while the first held the manager, is about to
\* return: the first has returned, and the handle is closed.
C31_Witness ==
    /\ last.op = "Close"
    /\ closed /\ ~fhOpen
    /\ calls = 2
    /\ \E t \in Threads : pcs[t] = [op |-> "Close", at |-> "cached"]

(* -------------------------------- C32 --------------------------------- *)
\* What a closed manager answers its readers: Read fails for every key,
\* GetByParentID fails for every parent, Count() is 0.
C32_ClosedReads ==
    (IsManager /\ closed) =>
        /\ "nil" \notin ReadErrs
        /\ CountResult = 0
        /\ kind = "join" =>
             \A p \in 1..MaxParent : GetByParentIDResult(p).err # "nil"

\* A mutating call on a closed manager: Create and Clone fail with "manager
\* is closed", Update and Delete fail, each before any call of the
\* FileHandler, and the file, the handle and the caches are as they were.
C32_ClosedMutators ==
    (/\ IsManager /\ closed
     /\ last'.op \in {"Create", "Clone", "Update", "Delete"})
        => /\ last'.op \in {"Create", "Clone"} => last'.err = "closed"
           /\ last'.err \in EarlyErrs
           /\ last'.off = -1
           /\ closed'
           /\ UNCHANGED <<file, fhOpen, dataCache, parentCache, heap>>

\* C32: after Close nothing is mutated: Create (and Clone) fail with "manager
\* is closed", Update and Delete fail, Read and GetByParentID fail, Count()
\* returns 0, and none of these calls writes to the file, reads the closed
\* file handle, or inserts into the discarded cache.
C32_NothingAfterClose == []C32_ClosedReads /\ [][C32_ClosedMutators]_vars

\* An Update or a Delete has failed on a manager closed over a file that
\* holds an active record.
C32_Witness ==
    /\ IsManager /\ closed
    /\ last.op \in {"Update", "Delete"}
    /\ last.err \in {"not exist", "not found"}
    /\ ActiveSlots(file) # {}
    /\ dataCache = EmptyMap

(* -------------------------------- C33 --------------------------------- *)
\* What find answers for a path.
Lookup(path) == find(router.root, path)

\* C33: after registering any set of distinct static paths (each beginning
\* with '/') in any order on one method tree, find(p) returns for every
\* registered path p the handlers chain registered for p, also when one
\* registered path is a proper prefix of another registered earlier, and
\* returns no handlers for a path that was not registered.
C33_StaticLookup ==
    (kind = "router" /\ DOMAIN routes \subseteq StaticPaths) =>
        /\ router.state # "panic"
        /\ \A p \in StaticPaths :
             Lookup(p) = Found(IF p \in DOMAIN routes THEN routes[p]
                               ELSE NilHandlers, NilParams)

(* -------------------------------- C34 --------------------------------- *)
\* C34: after registering the static route "/" and then the route
\* "/users/:id", as cmd/main.go does, a lookup of "/users/<v>" for any
\* non-empty segment v returns the handlers of "/users/:id" together with
\* the parameter id = v.
C34_DynamicLookup ==
    (kind = "router" /\ DOMAIN routes = {<<"/">>, UsersId}) =>
        \A v \in Segments :
            Lookup(UsersPrefix \o v) =
                Found(HandlersFor(UsersId), Put(NilParams, <<"i", "d">>, v))

(* -------------------------------- C35 --------------------------------- *)
\* The handlers invoked so far are the first handlers of the chain, each
\* once and in chain order.
C35_InOrderOnce ==
    \A i \in 1..Len(ctx.called) : ctx.called[i] = i - 1

\* C35: Abort prevents pending handlers from being called: for a handlers
\* chain of any length, once a handler has called Abort during Next no
\* handler later in the chain is invoked for the request; without Abort,
\* Next invokes every handler of the chain exactly once in chain order, also
\* when middleware call Next themselves.
C35_AbortStopsChain ==
    kind = "chain" =>
        /\ ctx.status # "panic"
        /\ C35_InOrderOnce
        /\ ctx.abortedAt >= 0 => Len(ctx.called) = ctx.abortedAt
        /\ (ctx.status = "done" /\ ctx.abortedAt < 0)
              => Len(ctx.called) = Len(ctx.Handlers)

\* The same of the Context whose index is an int.
C35_IntIndexPart == ctx.index8 \/ C35_AbortStopsChain

====
